---- MODULE Spec2Model ----
(***************************************************************************)
(* A model of the core runtime of boo:                                     *)
(*   - the AudioQueue engine's callback / client rendezvous (AQS.cpp),     *)
(*   - the deferred parameter latches of a voice (AudioVoice.cpp),         *)
(*   - the move-only lifetime tokens of the graphics data factory          *)
(*     (IGraphicsDataFactory.hpp),                                         *)
(*   - the IOKit HID listener's hot-plug handling (CHIDListenerIOKit.cpp). *)
(* Each subsystem has its own specification over the shared variables; the *)
(* variables of the other subsystems stay at their initial values.         *)
(***************************************************************************)
EXTENDS Integers, Sequences, FiniteSets, TLC

VARIABLES
    \* ---- AQSAudioVoiceEngine (AQS.cpp) ----
    m_inRetrace,      \* bool m_inRetrace
    m_inCb,           \* bool m_inCb
    m_cbRunning,      \* bool m_cbRunning
    m_engineMutex,    \* owner of m_engineMutex: "none", "cb", "client", "breaker"
    cbpc,             \* position of the AudioQueue callback thread in Callback
    clpc,             \* position of the client thread
    cbWait,           \* result of the callback's wait_for in this invocation
    cbBuf,            \* inBuffer of the current (or last) Callback invocation, 0 = none
    bufData,          \* mAudioData of each of m_buffers[3], one tag per byte
    bufSize,          \* mAudioDataByteSize of each buffer
    queue,            \* buffers enqueued in the AudioQueue, in order
    disposed,         \* AudioQueueDispose has completed
    cbPumps,          \* history: _pumpAndMixVoices calls of this invocation
    cbPumpFrames,     \* history: frames argument of the last _pumpAndMixVoices call
    cbRetraceAtEntry, \* history: m_inRetrace as read at line 61 of this invocation
    cbBufWasMixed,    \* history: inBuffer held mixed audio when Callback was invoked
    cbCount,          \* history of the current or last invocation of Callback:
                      \* it passed line 56, and how often it has enqueued its
                      \* buffer, zero-filled it and notified leave
    enterNotifiers,   \* history: who has called m_engineEnterCv.notify_one
    leaveNotifiers,   \* history: who has called m_engineLeaveCv.notify_one
    enterWaited,      \* history: who has waited on m_engineEnterCv
    leaveWaited,      \* history: who has waited on m_engineLeaveCv
    \* ---- AudioVoice (AudioVoice.cpp) ----
    m_dynamicRate,        \* bool m_dynamicRate, fixed at construction
    m_resetSampleRate,    \* latch: a sample-rate reset is pending
    m_setPitchRatio,      \* latch: a pitch-ratio change is pending
    m_pitchRatio,         \* deferred pitch ratio
    m_slew,               \* deferred slew flag
    m_deferredSampleRate, \* deferred input sample rate
    m_sampleRateIn,       \* input rate the resampler was built for
    m_src,                \* the soxr resampler: [valid, rate, ioNum, slewLen]
    vpc,                  \* position of the pumping thread in pumpAndMix
    spc,                  \* position of the client thread in a setter
    sArg,                 \* arguments of the setter call in progress
    soxrFailed,           \* history: some soxr call has reported an error
    pitchReq,             \* history: latest setPitchRatio: "none", "writing", "done"
    pitchWant,            \* history: ratio asked for by the latest setPitchRatio
    pitchApplied,         \* history: latch-consuming applications of that ratio
    rateApplied,          \* history: latched resets that built the resampler at rateWant
    rateReq,              \* history: latest resetSampleRate: "none", "writing", "done"
    rateWant,             \* history: rate asked for by the latest resetSampleRate
    pumpSawDone,          \* history: the pump in progress started after the request
    pumpAfterReq,         \* history: such a pump has finished its _midUpdate
    pulled,               \* history: soxr_output calls of the pump in progress
    pendingAtStart,       \* history: the pump in progress started with both latches set
    oDone,                \* frames soxr_output returned to the pump in progress
    hookReq,              \* history: the requests the client made inside preSupplyAudio
                          \* of the pump in progress that no later request replaced
    \* ---- GraphicsDataToken / GraphicsBufferPoolToken (IGraphicsDataFactory.hpp)
    dtok,                 \* the GraphicsDataToken objects: [live, m_factory, m_data]
    groups,               \* the factory's data groups: [state, res]
    destroyDataCalls,     \* history: destroyData calls per IGraphicsData pointer
    ptok,                 \* the GraphicsBufferPoolToken objects: [live, m_factory, m_pool]
    pools,                \* the factory's buffer pools: [state]
    destroyPoolCalls,     \* history: destroyPool calls per IGraphicsBufferPool pointer
    pbufs,                \* the factory's pool buffers: [pool, state, destroys, asked]
    lastCommit,           \* history: the commitTransaction that has just returned
    lastDrop,             \* history: the doDestroy / destructor that has just returned
    failedTok,            \* history: data tokens that hold the result of a failed commit
    \* ---- CHIDListenerIOKit (CHIDListenerIOKit.cpp)
    m_scanningEnabled,
    m_tokens,             \* the finder's tokens: how many it holds per OS handle
    runLoopBlocks,        \* blocks queued on m_listenerRunLoop by CFRunLoopPerformBlock
    attached,             \* the devices the OS has attached
    hidLast,              \* history: the last event the listener processed
    evSeq,                \* history: progress of connect, disconnect, connect per handle
    readable,             \* per handle: the OS can read the attached device's properties
    hidThr,               \* the thread inside scanNow and its copy of the device set,
                          \* whether the listener's destructor has run;
                          \* history: the thread of the last mutation of the token
                          \* set, and whether one ran while another thread scanned
    \* ---- the pump of a voice: scratch vectors, sends, mixing (AudioVoice.cpp)
    m_scratch,            \* size of each scratch vector of the engine (m_root)
    m_silentOut,          \* per voice
    m_sendMatrices,       \* per voice: submix -> matrix [coefs, slewFrames], coefs 0 = no entry
    maxDemand,            \* history: most samples a pump or input callback needed, per vector
    lastPump,             \* history: the pumpAndMix call that has just returned
    ref,                  \* history: one earlier pump, kept for comparison
    liveSubmixes,         \* the submixes that have not been destroyed
    sendLog,              \* history: the last call that changed a voice's sends and,
                          \* per voice, the destinations named since its last reset
    \* ---- NewAudioVoiceEngine and the constructor of AQSAudioVoiceEngine (AQS.cpp)
    ctor,                 \* [pc, chCount, m_queue, m_periodFrames, allocated, i,
                          \*  enqueued, started, failed, ret]
    \* ---- the MIDI endpoints of AQSAudioVoiceEngine (AQS.cpp)
    midi                  \* [m_midiClient, m_midiInCounter, m_midiOutCounter, eps, os,
                          \*  recv, last]

aqsVars == <<m_inRetrace, m_inCb, m_cbRunning, m_engineMutex, cbpc, clpc, cbWait,
             cbBuf, bufData, bufSize, queue, disposed, cbPumps, cbPumpFrames,
             cbRetraceAtEntry, cbBufWasMixed, enterNotifiers, leaveNotifiers,
             enterWaited, leaveWaited, cbCount>>

voiceVars == <<m_dynamicRate, m_resetSampleRate, m_setPitchRatio, m_pitchRatio,
               m_slew, m_deferredSampleRate, m_sampleRateIn, m_src, vpc, spc,
               sArg, soxrFailed, pitchReq, pitchWant, pitchApplied, rateApplied,
               rateReq,
               rateWant, pumpSawDone, pumpAfterReq, pulled, pendingAtStart, oDone,
               hookReq>>

tokVars == <<dtok, groups, destroyDataCalls, ptok, pools, destroyPoolCalls, pbufs,
             lastCommit, lastDrop, failedTok>>

hidVars == <<m_scanningEnabled, m_tokens, runLoopBlocks, attached, hidLast, evSeq,
            readable, hidThr>>

mixVars == <<m_scratch, m_silentOut, m_sendMatrices, maxDemand, lastPump, ref,
            liveSubmixes, sendLog>>

vars == <<aqsVars, voiceVars, tokVars, hidVars, mixVars, ctor, midi>>

nonAqsVars == <<voiceVars, tokVars, hidVars, mixVars, ctor, midi>>

nonVoiceVars == <<aqsVars, tokVars, hidVars, mixVars, ctor, midi>>

nonTokVars == <<aqsVars, voiceVars, hidVars, mixVars, ctor, midi>>

nonHidVars == <<aqsVars, voiceVars, tokVars, mixVars, ctor, midi>>

nonMixVars == <<aqsVars, voiceVars, tokVars, hidVars, ctor, midi>>

nonMidiVars == <<aqsVars, voiceVars, tokVars, hidVars, mixVars, ctor>>

(***************************************************************************)
(* Bounds and program constants of the audio engine.                       *)
(***************************************************************************)
\* m_5msFrames: five milliseconds in frames at the output rate
m_5msFrames == 1
\* m_mixInfo.m_periodFrames = m_5msFrames * 3   (line 707)
PeriodFrames == m_5msFrames * 3
\* m_mixInfo.m_channelMap.m_channelCount
ChannelCount == 2
\* bytes of one float sample
BytesPerSample == 4
\* AudioQueueBufferRef m_buffers[3]
NumBuffers == 3

Buffers == 1..NumBuffers

\* m_frameBytes = m_periodFrames * m_channelCount * 4
m_frameBytes == PeriodFrames * ChannelCount * BytesPerSample

\* A byte of a hardware buffer: 0 is a zero byte, 1 a byte of mixed audio.
ZeroByte == 0
MixedByte == 1

RangeOf(s) == {s[i] : i \in DOMAIN s}

(***************************************************************************)
(* Condition variables.  Only the callback waits on m_engineEnterCv and    *)
(* only the client thread waits on m_engineLeaveCv, so notify_one wakes    *)
(* that thread when it is waiting and is lost otherwise.  A woken thread   *)
(* still has to take m_engineMutex again before its wait returns.          *)
(***************************************************************************)
EnterWake(pc) == IF pc = "wait" THEN "relock" ELSE pc

EnterWakeResult(pc, w) == IF pc = "wait" THEN "no_timeout" ELSE w

\* A notification of leave that wakes nobody.
LeaveWake_Lost(pc) == pc

LeaveWake(pc) ==
    CASE pc = "pmv_wait" -> "pmv_relock"
      [] pc = "rt_wait" -> "rt_relock"
      [] OTHER -> pc

(***************************************************************************)
(* AQSAudioVoiceEngine::Callback                                           *)
(***************************************************************************)
\* The AudioQueue has finished a buffer and invokes Callback with it.
NoCount == [passed |-> FALSE, enq |-> 0, zero |-> 0, leave |-> 0]

CbInvoke ==
    /\ cbpc = "idle"
    /\ ~disposed
    /\ queue # <<>>
    /\ cbBuf' = Head(queue)
    /\ queue' = Tail(queue)
    /\ cbpc' = "check"
    /\ cbWait' = "none"
    /\ cbPumps' = 0
    /\ cbPumpFrames' = 0
    /\ cbRetraceAtEntry' = FALSE
    /\ cbBufWasMixed' = (MixedByte \in RangeOf(bufData[Head(queue)]))
    /\ cbCount' = NoCount
    /\ UNCHANGED <<m_inRetrace, m_inCb, m_cbRunning, m_engineMutex, clpc, bufData,
                   bufSize, disposed, enterNotifiers, leaveNotifiers,
                   enterWaited, leaveWaited, nonAqsVars>>

\* A callback that goes on whatever m_cbRunning says.
CbRunningCheck_Ignore == TRUE

\* line 56: the value the callback reads from m_cbRunning, without the mutex
CbRunningCheck == m_cbRunning

\* if (!engine->m_cbRunning) return;
CbCheckRunning ==
    /\ cbpc = "check"
    /\ cbpc' = IF CbRunningCheck THEN "lock" ELSE "idle"
    /\ cbCount' = [cbCount EXCEPT !.passed = CbRunningCheck]
    /\ UNCHANGED <<m_inRetrace, m_inCb, m_cbRunning, m_engineMutex, clpc, cbWait,
                   cbBuf, bufData, bufSize, queue, disposed, cbPumps, cbPumpFrames,
                   cbRetraceAtEntry, enterNotifiers, leaveNotifiers,
                   enterWaited, leaveWaited, cbBufWasMixed,
                   nonAqsVars>>

\* std::unique_lock<std::mutex> lk(engine->m_engineMutex);
CbLock ==
    /\ cbpc = "lock"
    /\ m_engineMutex = "none"
    /\ m_engineMutex' = "cb"
    /\ cbpc' = "setincb"
    /\ UNCHANGED <<m_inRetrace, m_inCb, m_cbRunning, clpc, cbWait, cbBuf, bufData,
                   bufSize, queue, disposed, cbPumps, cbPumpFrames,
                   cbRetraceAtEntry, enterNotifiers, leaveNotifiers,
                   enterWaited, leaveWaited, cbBufWasMixed, cbCount,
                   nonAqsVars>>

\* engine->m_inCb = true;
CbSetInCb ==
    /\ cbpc = "setincb"
    /\ m_inCb' = TRUE
    /\ cbpc' = "test"
    /\ UNCHANGED <<m_inRetrace, m_cbRunning, m_engineMutex, clpc, cbWait, cbBuf,
                   bufData, bufSize, queue, disposed, cbPumps, cbPumpFrames,
                   cbRetraceAtEntry, enterNotifiers, leaveNotifiers,
                   enterWaited, leaveWaited, cbBufWasMixed, cbCount,
                   nonAqsVars>>

\* if (!engine->m_inRetrace): whether this invocation enters the bounded wait
CbMustWait_NeverSkip == TRUE

CbMustWait == ~m_inRetrace

\* line 61, and the start of wait_for, which releases the mutex
CbTestRetrace ==
    /\ cbpc = "test"
    /\ cbRetraceAtEntry' = m_inRetrace
    /\ IF CbMustWait
         THEN /\ cbpc' = "wait"
              /\ m_engineMutex' = "none"
              /\ enterWaited' = enterWaited \cup {"Callback"}
         ELSE /\ cbpc' = "pump"
              /\ UNCHANGED <<m_engineMutex, enterWaited>>
    /\ UNCHANGED <<m_inRetrace, m_inCb, m_cbRunning, clpc, cbWait, cbBuf, bufData,
                   bufSize, queue, disposed, cbPumps, cbPumpFrames,
                   enterNotifiers, leaveNotifiers, leaveWaited, cbBufWasMixed, cbCount,
                   nonAqsVars>>

\* wait_for: the period (periodFrames / sampleRate) elapses with no notification
CbTimeout ==
    /\ cbpc = "wait"
    /\ cbpc' = "relock"
    /\ cbWait' = "timeout"
    /\ UNCHANGED <<m_inRetrace, m_inCb, m_cbRunning, m_engineMutex, clpc, cbBuf,
                   bufData, bufSize, queue, disposed, cbPumps, cbPumpFrames,
                   cbRetraceAtEntry, enterNotifiers, leaveNotifiers,
                   enterWaited, leaveWaited, cbBufWasMixed, cbCount,
                   nonAqsVars>>

\* wait_for: a spurious wake-up, which std::condition_variable allows
CbSpuriousWake ==
    /\ cbpc = "wait"
    /\ cbpc' = "relock"
    /\ cbWait' = "no_timeout"
    /\ UNCHANGED <<m_inRetrace, m_inCb, m_cbRunning, m_engineMutex, clpc, cbBuf,
                   bufData, bufSize, queue, disposed, cbPumps, cbPumpFrames,
                   cbRetraceAtEntry, enterNotifiers, leaveNotifiers,
                   enterWaited, leaveWaited, cbBufWasMixed, cbCount,
                   nonAqsVars>>

\* wait_for(...) == std::cv_status::timeout || !engine->m_inRetrace
CbZeroCond_IgnoreTimeout(w) == ~m_inRetrace

CbZeroCond(w) == w = "timeout" \/ ~m_inRetrace

\* A callback that, woken without a timeout, pumps without looking at
\* m_inRetrace again.
CbRelock_NoRetest ==
    /\ cbpc = "relock"
    /\ m_engineMutex = "none"
    /\ m_engineMutex' = "cb"
    /\ cbpc' = IF cbWait = "timeout" THEN "zero" ELSE "pump"
    /\ UNCHANGED <<m_inRetrace, m_inCb, m_cbRunning, clpc, cbWait, cbBuf, bufData,
                   bufSize, queue, disposed, cbPumps, cbPumpFrames,
                   cbRetraceAtEntry, enterNotifiers, leaveNotifiers,
                   enterWaited, leaveWaited, cbBufWasMixed, cbCount,
                   nonAqsVars>>

\* wait_for returns once the mutex is held again; lines 63-66 pick the branch
CbRelock ==
    /\ cbpc = "relock"
    /\ m_engineMutex = "none"
    /\ m_engineMutex' = "cb"
    /\ cbpc' = IF CbZeroCond(cbWait) THEN "zero" ELSE "pump"
    /\ UNCHANGED <<m_inRetrace, m_inCb, m_cbRunning, clpc, cbWait, cbBuf, bufData,
                   bufSize, queue, disposed, cbPumps, cbPumpFrames,
                   cbRetraceAtEntry, enterNotifiers, leaveNotifiers,
                   enterWaited, leaveWaited, cbBufWasMixed, cbCount,
                   nonAqsVars>>

Memset(data, n) ==
    [i \in DOMAIN data |-> IF i <= n THEN ZeroByte ELSE data[i]]

\* A callback that zero-fills its buffer and does not give it back to the
\* queue.
CbZeroFill_NoEnqueue ==
    /\ cbpc = "zero"
    /\ bufSize' = [bufSize EXCEPT ![cbBuf] = m_frameBytes]
    /\ bufData' = [bufData EXCEPT ![cbBuf] = Memset(bufData[cbBuf], m_frameBytes)]
    /\ cbpc' = "notify"
    /\ cbCount' = [cbCount EXCEPT !.zero = @ + 1]
    /\ UNCHANGED <<m_inRetrace, m_inCb, m_cbRunning, m_engineMutex, clpc, cbWait,
                   cbBuf, queue, disposed, cbPumps, cbPumpFrames, cbRetraceAtEntry,
                   enterNotifiers, leaveNotifiers, enterWaited, leaveWaited,
                   cbBufWasMixed, nonAqsVars>>

\* lines 68-70: the deadline was missed, hand silence to the hardware
CbZeroFill ==
    /\ cbpc = "zero"
    /\ bufSize' = [bufSize EXCEPT ![cbBuf] = m_frameBytes]
    /\ bufData' = [bufData EXCEPT ![cbBuf] = Memset(bufData[cbBuf], m_frameBytes)]
    /\ queue' = Append(queue, cbBuf)
    /\ cbpc' = "notify"
    /\ cbCount' = [cbCount EXCEPT !.enq = @ + 1, !.zero = @ + 1]
    /\ UNCHANGED <<m_inRetrace, m_inCb, m_cbRunning, m_engineMutex, clpc, cbWait,
                   cbBuf, disposed, cbPumps, cbPumpFrames, cbRetraceAtEntry,
                   enterNotifiers, leaveNotifiers, enterWaited, leaveWaited, cbBufWasMixed,
                   nonAqsVars>>

\* _pumpAndMixVoices(frames, data): the mixed main submix is written to data
PumpAndMixVoices(data, frames) ==
    [i \in DOMAIN data |->
        IF i <= frames * ChannelCount * BytesPerSample THEN MixedByte ELSE data[i]]

\* lines 77-80: pump the voices into the buffer and enqueue it
CbPump ==
    /\ cbpc = "pump"
    /\ bufData' = [bufData EXCEPT ![cbBuf] = PumpAndMixVoices(bufData[cbBuf], PeriodFrames)]
    /\ bufSize' = [bufSize EXCEPT ![cbBuf] = m_frameBytes]
    /\ queue' = Append(queue, cbBuf)
    /\ cbPumps' = cbPumps + 1
    /\ cbPumpFrames' = PeriodFrames
    /\ cbpc' = "notify"
    /\ cbCount' = [cbCount EXCEPT !.enq = @ + 1]
    /\ UNCHANGED <<m_inRetrace, m_inCb, m_cbRunning, m_engineMutex, clpc, cbWait,
                   cbBuf, disposed, cbRetraceAtEntry, enterNotifiers,
                   leaveNotifiers, enterWaited, leaveWaited, cbBufWasMixed,
                   nonAqsVars>>

\* A callback that notifies the condition the callback itself waits on.
CbNotifyLeave_WrongCv ==
    /\ cbpc = "notify"
    /\ enterNotifiers' = enterNotifiers \cup {"Callback"}
    /\ cbpc' = "clear"
    /\ UNCHANGED <<m_inRetrace, m_inCb, m_cbRunning, m_engineMutex, clpc, cbWait,
                   cbBuf, bufData, bufSize, queue, disposed, cbPumps, cbPumpFrames,
                   cbRetraceAtEntry, leaveNotifiers, enterWaited, leaveWaited, cbBufWasMixed, cbCount,
                   nonAqsVars>>

\* engine->m_engineLeaveCv.notify_one();   (lines 71 and 82)
CbNotifyLeave ==
    /\ cbpc = "notify"
    /\ leaveNotifiers' = leaveNotifiers \cup {"Callback"}
    /\ clpc' = LeaveWake(clpc)
    /\ cbpc' = "clear"
    /\ cbCount' = [cbCount EXCEPT !.leave = @ + 1]
    /\ UNCHANGED <<m_inRetrace, m_inCb, m_cbRunning, m_engineMutex, cbWait, cbBuf,
                   bufData, bufSize, queue, disposed, cbPumps, cbPumpFrames,
                   cbRetraceAtEntry, enterNotifiers, enterWaited, leaveWaited, cbBufWasMixed,
                   nonAqsVars>>

\* engine->m_inCb = false; return (the unique_lock releases the mutex)
CbReturn ==
    /\ cbpc = "clear"
    /\ m_inCb' = FALSE
    /\ m_engineMutex' = "none"
    /\ cbpc' = "idle"
    /\ UNCHANGED <<m_inRetrace, m_cbRunning, clpc, cbWait, cbBuf, bufData, bufSize,
                   queue, disposed, cbPumps, cbPumpFrames, cbRetraceAtEntry,
                   enterNotifiers, leaveNotifiers, enterWaited, leaveWaited, cbBufWasMixed, cbCount,
                   nonAqsVars>>

(***************************************************************************)
(* The client side: pumpAndMixVoices, _pumpAndMixVoicesRetrace (client     *)
(* thread), _retraceBreak (another client-side thread) and the destructor. *)
(***************************************************************************)
EngineAlive == clpc \notin {"d_check", "d_dispose", "destroyed"}

\* pumpAndMixVoices: std::unique_lock<std::mutex> lk(m_engineMutex);
ClPumpLock ==
    /\ clpc = "idle"
    /\ m_engineMutex = "none"
    /\ m_engineMutex' = "client"
    /\ clpc' = "pmv_locked"
    /\ UNCHANGED <<m_inRetrace, m_inCb, m_cbRunning, cbpc, cbWait, cbBuf, bufData,
                   bufSize, queue, disposed, cbPumps, cbPumpFrames,
                   cbRetraceAtEntry, enterNotifiers, leaveNotifiers,
                   enterWaited, leaveWaited, cbBufWasMixed, cbCount,
                   nonAqsVars>>

\* pumpAndMixVoices, lines 748-754: wake the callback, wait for its completion
ClPumpBody ==
    /\ clpc = "pmv_locked"
    /\ m_engineMutex' = "none"
    /\ IF m_inCb
         THEN /\ enterNotifiers' = enterNotifiers \cup {"pumpAndMixVoices"}
              /\ cbpc' = EnterWake(cbpc)
              /\ cbWait' = EnterWakeResult(cbpc, cbWait)
              /\ leaveWaited' = leaveWaited \cup {"pumpAndMixVoices"}
              /\ clpc' = "pmv_wait"
         ELSE /\ clpc' = "idle"
              /\ UNCHANGED <<enterNotifiers, cbpc, cbWait, leaveWaited>>
    /\ UNCHANGED <<m_inRetrace, m_inCb, m_cbRunning, cbBuf, bufData, bufSize, queue,
                   disposed, cbPumps, cbPumpFrames, cbRetraceAtEntry,
                   leaveNotifiers, enterWaited, cbBufWasMixed, cbCount,
                   nonAqsVars>>

\* m_engineLeaveCv.wait(lk): a spurious wake-up of the client
ClSpuriousWake ==
    /\ clpc \in {"pmv_wait", "rt_wait"}
    /\ clpc' = LeaveWake(clpc)
    /\ UNCHANGED <<m_inRetrace, m_inCb, m_cbRunning, m_engineMutex, cbpc, cbWait,
                   cbBuf, bufData, bufSize, queue, disposed, cbPumps, cbPumpFrames,
                   cbRetraceAtEntry, enterNotifiers, leaveNotifiers,
                   enterWaited, leaveWaited, cbBufWasMixed, cbCount,
                   nonAqsVars>>

\* pumpAndMixVoices: wait returns with the mutex held, then the lock is released
ClPumpReturn ==
    /\ clpc = "pmv_relock"
    /\ m_engineMutex = "none"
    /\ clpc' = "idle"
    /\ UNCHANGED <<m_inRetrace, m_inCb, m_cbRunning, m_engineMutex, cbpc, cbWait,
                   cbBuf, bufData, bufSize, queue, disposed, cbPumps, cbPumpFrames,
                   cbRetraceAtEntry, enterNotifiers, leaveNotifiers,
                   enterWaited, leaveWaited, cbBufWasMixed, cbCount,
                   nonAqsVars>>

\* _pumpAndMixVoicesRetrace, lines 759-760: lock, m_inRetrace = true
ClRetraceEnter ==
    /\ clpc = "idle"
    /\ m_engineMutex = "none"
    /\ m_engineMutex' = "client"
    /\ m_inRetrace' = TRUE
    /\ clpc' = "rt_locked"
    /\ UNCHANGED <<m_inCb, m_cbRunning, cbpc, cbWait, cbBuf, bufData, bufSize,
                   queue, disposed, cbPumps, cbPumpFrames, cbRetraceAtEntry,
                   enterNotifiers, leaveNotifiers, enterWaited, leaveWaited, cbBufWasMixed, cbCount,
                   nonAqsVars>>

\* _pumpAndMixVoicesRetrace, lines 761-767: one turn of while (m_inRetrace)
ClRetraceLoop ==
    /\ clpc = "rt_locked"
    /\ m_engineMutex' = "none"
    /\ IF m_inRetrace
         THEN /\ clpc' = "rt_wait"
              /\ leaveWaited' = leaveWaited \cup {"_pumpAndMixVoicesRetrace"}
              /\ IF m_inCb
                   THEN /\ enterNotifiers' =
                              enterNotifiers \cup {"_pumpAndMixVoicesRetrace"}
                        /\ cbpc' = EnterWake(cbpc)
                        /\ cbWait' = EnterWakeResult(cbpc, cbWait)
                   ELSE UNCHANGED <<enterNotifiers, cbpc, cbWait>>
         ELSE /\ clpc' = "idle"
              /\ UNCHANGED <<enterNotifiers, cbpc, cbWait, leaveWaited>>
    /\ UNCHANGED <<m_inRetrace, m_inCb, m_cbRunning, cbBuf, bufData, bufSize, queue,
                   disposed, cbPumps, cbPumpFrames, cbRetraceAtEntry,
                   leaveNotifiers, enterWaited, cbBufWasMixed, cbCount,
                   nonAqsVars>>

\* _pumpAndMixVoicesRetrace: m_engineLeaveCv.wait returns with the mutex held
ClRetraceRelock ==
    /\ clpc = "rt_relock"
    /\ m_engineMutex = "none"
    /\ m_engineMutex' = "client"
    /\ clpc' = "rt_locked"
    /\ UNCHANGED <<m_inRetrace, m_inCb, m_cbRunning, cbpc, cbWait, cbBuf, bufData,
                   bufSize, queue, disposed, cbPumps, cbPumpFrames,
                   cbRetraceAtEntry, enterNotifiers, leaveNotifiers,
                   enterWaited, leaveWaited, cbBufWasMixed, cbCount,
                   nonAqsVars>>

\* A _retraceBreak that signals enter whether or not a callback is in
\* progress, and never leave.
RetraceBreak_EnterOnly ==
    /\ EngineAlive
    /\ m_engineMutex = "none"
    /\ m_inRetrace' = FALSE
    /\ enterNotifiers' = enterNotifiers \cup {"_retraceBreak"}
    /\ cbpc' = EnterWake(cbpc)
    /\ cbWait' = EnterWakeResult(cbpc, cbWait)
    /\ UNCHANGED <<leaveNotifiers, clpc>>
    /\ UNCHANGED <<m_inCb, m_cbRunning, m_engineMutex, cbBuf, bufData, bufSize,
                   queue, disposed, cbPumps, cbPumpFrames, cbRetraceAtEntry,
                   enterWaited, leaveWaited, cbBufWasMixed, cbCount,
                   nonAqsVars>>

\* _retraceBreak, lines 770-778, run by another thread with the mutex held
\* from its first to its last statement
RetraceBreak ==
    /\ EngineAlive
    /\ m_engineMutex = "none"
    /\ m_inRetrace' = FALSE
    /\ IF m_inCb
         THEN /\ enterNotifiers' = enterNotifiers \cup {"_retraceBreak"}
              /\ cbpc' = EnterWake(cbpc)
              /\ cbWait' = EnterWakeResult(cbpc, cbWait)
              /\ UNCHANGED <<leaveNotifiers, clpc>>
         ELSE /\ leaveNotifiers' = leaveNotifiers \cup {"_retraceBreak"}
              /\ clpc' = LeaveWake(clpc)
              /\ UNCHANGED <<enterNotifiers, cbpc, cbWait>>
    /\ UNCHANGED <<m_inCb, m_cbRunning, m_engineMutex, cbBuf, bufData, bufSize,
                   queue, disposed, cbPumps, cbPumpFrames, cbRetraceAtEntry,
                   enterWaited, leaveWaited, cbBufWasMixed, cbCount,
                   nonAqsVars>>

\* ~AQSAudioVoiceEngine, line 734: m_cbRunning = false (no mutex)
DtorBegin ==
    /\ clpc = "idle"
    /\ m_cbRunning' = FALSE
    /\ clpc' = "d_check"
    /\ UNCHANGED <<m_inRetrace, m_inCb, m_engineMutex, cbpc, cbWait, cbBuf, bufData,
                   bufSize, queue, disposed, cbPumps, cbPumpFrames,
                   cbRetraceAtEntry, enterNotifiers, leaveNotifiers,
                   enterWaited, leaveWaited, cbBufWasMixed, cbCount,
                   nonAqsVars>>

\* ~AQSAudioVoiceEngine, lines 735-736: if (m_inCb) m_engineEnterCv.notify_one()
DtorWake ==
    /\ clpc = "d_check"
    /\ clpc' = "d_dispose"
    /\ IF m_inCb
         THEN /\ enterNotifiers' = enterNotifiers \cup {"~AQSAudioVoiceEngine"}
              /\ cbpc' = EnterWake(cbpc)
              /\ cbWait' = EnterWakeResult(cbpc, cbWait)
         ELSE UNCHANGED <<enterNotifiers, cbpc, cbWait>>
    /\ UNCHANGED <<m_inRetrace, m_inCb, m_cbRunning, m_engineMutex, cbBuf, bufData,
                   bufSize, queue, disposed, cbPumps, cbPumpFrames,
                   cbRetraceAtEntry, leaveNotifiers, enterWaited, leaveWaited, cbBufWasMixed, cbCount,
                   nonAqsVars>>

\* ~AQSAudioVoiceEngine, line 737: AudioQueueDispose(m_queue, true) returns
\* once no callback is running
DtorDispose ==
    /\ clpc = "d_dispose"
    /\ cbpc = "idle"
    /\ disposed' = TRUE
    /\ clpc' = "destroyed"
    /\ UNCHANGED <<m_inRetrace, m_inCb, m_cbRunning, m_engineMutex, cbpc, cbWait,
                   cbBuf, bufData, bufSize, queue, cbPumps, cbPumpFrames,
                   cbRetraceAtEntry, enterNotifiers, leaveNotifiers,
                   enterWaited, leaveWaited, cbBufWasMixed, cbCount,
                   nonAqsVars>>

\* The engine after a successful construction (lines 707-726): three
\* zero-filled buffers of m_frameBytes bytes enqueued, the queue started.
AQSInit ==
    /\ m_inRetrace = FALSE
    /\ m_inCb = FALSE
    /\ m_cbRunning = TRUE
    /\ m_engineMutex = "none"
    /\ cbpc = "idle"
    /\ clpc = "idle"
    /\ cbWait = "none"
    /\ cbBuf = 0
    /\ bufData = [b \in Buffers |-> [i \in 1..m_frameBytes |-> ZeroByte]]
    /\ bufSize = [b \in Buffers |-> m_frameBytes]
    /\ queue = [i \in 1..NumBuffers |-> i]
    /\ disposed = FALSE
    /\ cbPumps = 0
    /\ cbPumpFrames = 0
    /\ cbRetraceAtEntry = FALSE
    /\ cbBufWasMixed = FALSE
    /\ cbCount = NoCount
    /\ enterNotifiers = {}
    /\ leaveNotifiers = {}
    /\ enterWaited = {}
    /\ leaveWaited = {}

AQSNext ==
    \/ CbInvoke \/ CbCheckRunning \/ CbLock \/ CbSetInCb \/ CbTestRetrace
    \/ CbTimeout \/ CbSpuriousWake \/ CbRelock \/ CbZeroFill \/ CbPump
    \/ CbNotifyLeave \/ CbReturn
    \/ ClPumpLock \/ ClPumpBody \/ ClSpuriousWake \/ ClPumpReturn
    \/ ClRetraceEnter \/ ClRetraceLoop \/ ClRetraceRelock
    \/ RetraceBreak \/ DtorBegin \/ DtorWake \/ DtorDispose


(***************************************************************************)
(* Claims about the callback / client rendezvous (SpecAQS).                *)
(***************************************************************************)
RetraceOps == {"pumpAndMixVoices", "_pumpAndMixVoicesRetrace"}

ClientSideOps == RetraceOps \cup {"_retraceBreak", "~AQSAudioVoiceEngine"}

\* C1 (deadline safety): when the callback's bounded wait ends by timeout,
\* the callback pumps no voice, the buffer it enqueues has m_frameBytes
\* bytes, all of them zero, and the buffer is back in the AudioQueue, so
\* that once the callback has returned the queue can invoke it again.
C1_DeadlineSafety ==
    (cbWait = "timeout" /\ cbpc \in {"notify", "clear", "idle"}) =>
        /\ cbPumps = 0
        /\ bufSize[cbBuf] = m_frameBytes
        /\ \A i \in 1..m_frameBytes : bufData[cbBuf][i] = ZeroByte
        /\ cbBuf \in RangeOf(queue)
        /\ (cbpc = "idle" /\ ~disposed) => ENABLED CbInvoke

\* C1 witness: a callback whose wait timed out has returned, and the buffer
\* it was handed still held mixed audio from an earlier pump.
C1_Witness ==
    /\ cbpc = "idle"
    /\ cbWait = "timeout"
    /\ cbBufWasMixed
    /\ m_cbRunning
    /\ ~disposed

\* C9 as stated: the callback is the party that signals enter, the client
\* the party that signals leave.
C9_AsStated ==
    /\ enterNotifiers \subseteq {"Callback"}
    /\ leaveNotifiers \subseteq ClientSideOps

\* C9 (amended): the directions are the other way round.  The callback is
\* the only waiter on enter and never signals it; enter is signalled by the
\* client side only (pumpAndMixVoices, _pumpAndMixVoicesRetrace,
\* _retraceBreak, the destructor).  The callback signals leave after it has
\* filled and enqueued its buffer, _retraceBreak signals leave when no
\* callback is in progress, and only the client waits on leave.
C9_SignalDirection ==
    /\ "Callback" \notin enterNotifiers
    /\ enterNotifiers \subseteq ClientSideOps
    /\ enterWaited \subseteq {"Callback"}
    /\ leaveNotifiers \subseteq {"Callback", "_retraceBreak"}
    /\ leaveWaited \subseteq RetraceOps
    /\ cbpc = "clear" => ("Callback" \in leaveNotifiers /\ cbBuf \in RangeOf(queue))

\* C9 witness: the callback was released from its wait by the client's enter
\* signal, has pumped, and has released the waiting client by signalling leave.
C9_Witness ==
    /\ cbpc = "clear"
    /\ cbWait = "no_timeout"
    /\ cbPumps = 1
    /\ clpc = "rt_relock"
    /\ "_pumpAndMixVoicesRetrace" \in enterNotifiers
    /\ "Callback" \in leaveNotifiers

\* C10 as stated: while the client is inside _pumpAndMixVoicesRetrace with
\* m_inRetrace true, a callback that has filled its buffer has pumped the
\* voices exactly once, for periodFrames frames.
C10_AsStated ==
    (cbpc \in {"notify", "clear"} /\ m_inRetrace
        /\ clpc \in {"rt_locked", "rt_wait", "rt_relock"}) =>
            (cbPumps = 1 /\ cbPumpFrames = PeriodFrames)

\* C10 (amended): m_inRetrace is true only
\* while the client is inside _pumpAndMixVoicesRetrace; a callback that finds
\* m_inRetrace true at its test on line 61, or is woken before its timeout
\* with m_inRetrace true, calls _pumpAndMixVoices exactly once, for
\* periodFrames frames; and no callback invocation pumps twice.
C10_OnePumpPerCallback ==
    /\ cbPumps <= 1
    /\ m_inRetrace => clpc \in {"rt_locked", "rt_wait", "rt_relock"}
    /\ (cbpc \in {"notify", "clear", "idle"} /\ cbRetraceAtEntry) =>
           (cbPumps = 1 /\ cbPumpFrames = PeriodFrames)
    /\ (cbpc \in {"notify", "clear"} /\ cbWait = "no_timeout" /\ m_inRetrace) =>
           (cbPumps = 1 /\ cbPumpFrames = PeriodFrames)

\* C10 witness: in retrace mode a callback found m_inRetrace true on entry,
\* pumped once and woke the client that waits inside the retrace loop.
C10_Witness ==
    /\ cbpc = "clear"
    /\ cbRetraceAtEntry
    /\ cbPumps = 1
    /\ m_inRetrace
    /\ clpc = "rt_relock"

\* The state of the engine a callback can write to: the flags, the mutex and
\* the AudioQueue buffers.
EngineState == <<m_inRetrace, m_inCb, m_cbRunning, m_engineMutex, bufData, bufSize>>

\* C11 (orderly teardown): the destructor clears m_cbRunning and, when a
\* callback is in progress, signals enter.  From then on no callback pumps:
\* one that is inside the rendezvous leaves it by the wake-up or by its
\* timeout and hands over silence; one that starts afterwards returns at
\* line 57 without taking the mutex and without writing to the engine or to
\* its buffer; and the destructor, which waits in AudioQueueDispose for the
\* callback to return, always completes.
C11_OrderlyTeardown ==
    /\ [](~m_cbRunning => (cbpc # "pump" /\ (cbpc # "idle" => cbPumps = 0)))
    /\ [][(clpc = "d_check" /\ clpc' = "d_dispose" /\ cbpc = "wait") =>
            (cbpc' = "relock" /\ cbWait' = "no_timeout")]_vars
    /\ [][(cbpc = "check" /\ ~m_cbRunning /\ cbpc' # "check") =>
            (cbpc' = "idle" /\ UNCHANGED EngineState /\ UNCHANGED cbPumps)]_vars
    /\ (~m_cbRunning /\ cbpc = "wait") ~> (cbpc = "idle")
    /\ (clpc = "d_check") ~> (clpc = "destroyed")

\* C11 witness: the destructor found a callback blocked in its wait and
\* signalled enter; the callback has handed over silence without pumping and
\* returned, and AudioQueueDispose has completed.
C11_Witness ==
    /\ clpc = "destroyed"
    /\ "~AQSAudioVoiceEngine" \in enterNotifiers
    /\ cbWait = "no_timeout"
    /\ cbPumps = 0
    /\ cbBuf \in RangeOf(queue)
    /\ \A i \in 1..m_frameBytes : bufData[cbBuf][i] = ZeroByte

(***************************************************************************)
(* AudioVoice: the deferred parameter latches.  pumpAndMix runs on the     *)
(* thread that pumps the engine; setPitchRatio and resetSampleRate run on  *)
(* the client thread, take no lock and write their fields one at a time.   *)
(***************************************************************************)
\* number of distinct input sample rates a voice is given
MaxRate == 2
\* number of distinct pitch ratios a client asks for
MaxRatio == 2
\* m_root.mixInfo().m_sampleRate, in the same unit as the input rates
m_sampleRateOut == 1

Rates == 1..MaxRate
Ratios == 1..MaxRatio

NoArg == [val |-> 0, slew |-> FALSE]

\* soxr_create(sampleRate, rateOut, ...): a resampler at ratio rate / rateOut,
\* or no resampler when soxr reports an error
SoxrCreate(rate, ok) ==
    IF ok THEN [valid |-> TRUE, rate |-> rate, ioNum |-> rate, slewLen |-> 0]
          ELSE [valid |-> FALSE, rate |-> 0, ioNum |-> 0, slewLen |-> 0]

\* soxr_set_io_ratio(m_src, ratio * m_sampleRateIn / m_sampleRateOut, slewLen);
\* the ratio is kept as its numerator over m_sampleRateOut
SoxrSetIoRatio(src, ratio, rateIn, slewLen) ==
    [src EXCEPT !.ioNum = ratio * rateIn, !.slewLen = slewLen]

\* slew ? m_root.m_5msFrames : 0
SlewLen(slew) == IF slew THEN m_5msFrames ELSE 0

\* no request was made inside preSupplyAudio
NoHookReq == [pitch |-> FALSE, rate |-> FALSE]

\* ---- the setters (client thread) ----
\* setPitchRatio, line 47: m_setPitchRatio = true
SetPitchRatio_Flag ==
    /\ spc = "idle"
    /\ \E r \in Ratios, sl \in BOOLEAN :
          /\ sArg' = [val |-> r, slew |-> sl]
          /\ pitchWant' = r
    /\ m_setPitchRatio' = TRUE
    /\ spc' = "sp_ratio"
    /\ pitchReq' = "writing"
    /\ pitchApplied' = 0
    /\ pumpSawDone' = FALSE
    /\ pumpAfterReq' = FALSE
    /\ pendingAtStart' = FALSE
    /\ hookReq' = [hookReq EXCEPT !.pitch = FALSE]
    /\ UNCHANGED <<rateApplied, m_dynamicRate, m_resetSampleRate, m_pitchRatio, m_slew,
                   m_deferredSampleRate, m_sampleRateIn, m_src, vpc,
                   soxrFailed, rateReq, rateWant, pulled, oDone, nonVoiceVars>>

\* setPitchRatio, line 48: m_pitchRatio = ratio
SetPitchRatio_Ratio ==
    /\ spc = "sp_ratio"
    /\ m_pitchRatio' = sArg.val
    /\ spc' = "sp_slew"
    /\ UNCHANGED <<rateApplied, m_dynamicRate, m_resetSampleRate, m_setPitchRatio, m_slew,
                   m_deferredSampleRate, m_sampleRateIn, m_src, vpc, sArg,
                   soxrFailed, pitchReq, pitchWant, pitchApplied, rateReq,
                   rateWant, pumpSawDone, pumpAfterReq, pulled, pendingAtStart, oDone, hookReq,
                   nonVoiceVars>>

\* setPitchRatio, line 49: m_slew = slew, and the call returns
SetPitchRatio_Slew ==
    /\ spc = "sp_slew"
    /\ m_slew' = sArg.slew
    /\ spc' = "idle"
    /\ pitchReq' = "done"
    /\ UNCHANGED <<rateApplied, m_dynamicRate, m_resetSampleRate, m_setPitchRatio, m_pitchRatio,
                   m_deferredSampleRate, m_sampleRateIn, m_src, vpc, sArg,
                   soxrFailed, pitchWant, pitchApplied, rateReq, rateWant,
                   pumpSawDone, pumpAfterReq, pulled, pendingAtStart, oDone, hookReq,
                   nonVoiceVars>>

\* resetSampleRate, line 54: m_resetSampleRate = true
ResetSampleRate_Flag ==
    /\ spc = "idle"
    /\ \E rt \in Rates :
          /\ sArg' = [val |-> rt, slew |-> FALSE]
          /\ rateWant' = rt
    /\ m_resetSampleRate' = TRUE
    /\ spc' = "rr_rate"
    /\ rateReq' = "writing"
    /\ pumpSawDone' = FALSE
    /\ pumpAfterReq' = FALSE
    /\ rateApplied' = 0
    /\ pendingAtStart' = FALSE
    /\ hookReq' = [hookReq EXCEPT !.rate = FALSE]
    /\ UNCHANGED <<m_dynamicRate, m_setPitchRatio, m_pitchRatio, m_slew,
                   m_deferredSampleRate, m_sampleRateIn, m_src, vpc,
                   soxrFailed, pitchReq, pitchWant, pitchApplied, pulled, oDone, nonVoiceVars>>

\* resetSampleRate, line 55: m_deferredSampleRate = sampleRate, and the call returns
ResetSampleRate_Rate ==
    /\ spc = "rr_rate"
    /\ m_deferredSampleRate' = sArg.val
    /\ spc' = "idle"
    /\ rateReq' = "done"
    /\ UNCHANGED <<rateApplied, m_dynamicRate, m_resetSampleRate, m_setPitchRatio, m_pitchRatio,
                   m_slew, m_sampleRateIn, m_src, vpc, sArg, soxrFailed,
                   pitchReq, pitchWant, pitchApplied, rateWant, pumpSawDone,
                   pumpAfterReq, pulled, pendingAtStart, oDone, hookReq,
                   nonVoiceVars>>

\* ---- the pump (pumpAndMix16 / pumpAndMix32 / pumpAndMixFlt) ----
Bump(n) == IF n < 2 THEN n + 1 ELSE n

SetPitchRatioSrc(ratio, slew, ok) ==
    IF m_dynamicRate /\ ok /\ m_src.valid
        THEN SoxrSetIoRatio(m_src, ratio, m_sampleRateIn, SlewLen(slew))
        ELSE m_src

SetPitchRatioFails(ok) == m_dynamicRate /\ ~(ok /\ m_src.valid)

\* history: the call applies the ratio of the latest request while its latch is set
CountsAsApplied(ratio, ok) ==
    /\ m_dynamicRate /\ ok /\ m_src.valid
    /\ m_setPitchRatio
    /\ pitchReq # "none"
    /\ ratio = pitchWant

\* a pump of the voice starts (lines 202-210: scratch set-up)
VPumpStart ==
    /\ vpc = "idle"
    /\ vpc' = "pre"
    /\ pumpSawDone' = (spc = "idle")
    /\ pulled' = 0
    /\ pendingAtStart' = (m_resetSampleRate /\ m_setPitchRatio /\ spc = "idle")
    /\ hookReq' = NoHookReq
    /\ UNCHANGED <<rateApplied, m_dynamicRate, m_resetSampleRate, m_setPitchRatio, m_pitchRatio,
                   m_slew, m_deferredSampleRate, m_sampleRateIn, m_src, spc, sArg,
                   soxrFailed, pitchReq, pitchWant, pitchApplied, rateReq,
                   rateWant, pumpAfterReq, oDone, nonVoiceVars>>

\* m_cb->preSupplyAudio(*this, dt): the client's hook calls setPitchRatio
VPreSetPitchRatio ==
    /\ vpc = "pre"
    /\ spc = "idle"
    /\ \E r \in Ratios, sl \in BOOLEAN :
          /\ m_pitchRatio' = r
          /\ m_slew' = sl
          /\ pitchWant' = r
    /\ m_setPitchRatio' = TRUE
    /\ pitchReq' = "done"
    /\ pitchApplied' = 0
    /\ pumpSawDone' = FALSE
    /\ pumpAfterReq' = FALSE
    /\ pendingAtStart' = FALSE
    /\ hookReq' = [hookReq EXCEPT !.pitch = TRUE]
    /\ UNCHANGED <<rateApplied, m_dynamicRate, m_resetSampleRate, m_deferredSampleRate,
                   m_sampleRateIn, m_src, vpc, spc, sArg, soxrFailed, rateReq,
                   rateWant, pulled, oDone, nonVoiceVars>>

\* m_cb->preSupplyAudio(*this, dt): the client's hook calls resetSampleRate
VPreResetSampleRate ==
    /\ vpc = "pre"
    /\ spc = "idle"
    /\ \E rt \in Rates :
          /\ m_deferredSampleRate' = rt
          /\ rateWant' = rt
    /\ m_resetSampleRate' = TRUE
    /\ rateReq' = "done"
    /\ pumpSawDone' = FALSE
    /\ pumpAfterReq' = FALSE
    /\ rateApplied' = 0
    /\ pendingAtStart' = FALSE
    /\ hookReq' = [hookReq EXCEPT !.rate = TRUE]
    /\ UNCHANGED <<m_dynamicRate, m_setPitchRatio, m_pitchRatio, m_slew,
                   m_sampleRateIn, m_src, vpc, spc, sArg, soxrFailed, pitchReq,
                   pitchWant, pitchApplied, pulled, oDone, nonVoiceVars>>

\* A pump that goes from preSupplyAudio straight to the resampler.
AfterPreSupply_Output == "out"

\* the statement after m_cb->preSupplyAudio(*this, dt): _midUpdate()
\* (lines 136-137, 173-174, 210-211; stereo 339-340, 377-378, 417-418)
AfterPreSupply == "mid"

\* m_cb->preSupplyAudio returns
VPreDone ==
    /\ vpc = "pre"
    /\ vpc' = AfterPreSupply
    /\ UNCHANGED <<rateApplied, m_dynamicRate, m_resetSampleRate, m_setPitchRatio, m_pitchRatio,
                   m_slew, m_deferredSampleRate, m_sampleRateIn, m_src, spc, sArg,
                   soxrFailed, pitchReq, pitchWant, pitchApplied, rateReq,
                   rateWant, pumpSawDone, pumpAfterReq, pulled, pendingAtStart, oDone, hookReq,
                   nonVoiceVars>>

\* _midUpdate, lines 39-40, and _resetSampleRate up to its error check
\* (lines 86-105): the resampler is rebuilt at m_deferredSampleRate
VMidReset ==
    /\ vpc = "mid"
    /\ IF m_resetSampleRate
         THEN \E ok \in BOOLEAN :
                /\ m_src' = SoxrCreate(m_deferredSampleRate, ok)
                /\ rateApplied' = IF ok /\ rateReq # "none" /\ m_deferredSampleRate = rateWant
                                    THEN Bump(rateApplied) ELSE rateApplied
                /\ IF ok
                     THEN /\ m_sampleRateIn' = m_deferredSampleRate
                          /\ vpc' = "rs_pitch"
                          /\ UNCHANGED <<m_resetSampleRate, soxrFailed>>
                     ELSE /\ m_resetSampleRate' = FALSE
                          /\ soxrFailed' = TRUE
                          /\ vpc' = "mid2"
                          /\ UNCHANGED m_sampleRateIn
         ELSE /\ vpc' = "mid2"
              /\ UNCHANGED <<m_src, m_sampleRateIn, m_resetSampleRate, soxrFailed,
                             rateApplied>>
    /\ UNCHANGED <<m_dynamicRate, m_setPitchRatio, m_pitchRatio, m_slew,
                   m_deferredSampleRate, spc, sArg, pitchReq, pitchWant,
                   pitchApplied, rateReq, rateWant, pumpSawDone, pumpAfterReq,
                   pulled, pendingAtStart, oDone, hookReq,
                   nonVoiceVars>>

\* _resetSampleRate, line 107: _setPitchRatio(m_pitchRatio, false), its soxr call
VResetSetPitch ==
    /\ vpc = "rs_pitch"
    /\ \E ok \in BOOLEAN :
          /\ m_src' = SetPitchRatioSrc(m_pitchRatio, FALSE, ok)
          /\ soxrFailed' = (soxrFailed \/ SetPitchRatioFails(ok))
          /\ pitchApplied' = IF CountsAsApplied(m_pitchRatio, ok)
                               THEN Bump(pitchApplied) ELSE pitchApplied
    /\ vpc' = "rs_pclear"
    /\ UNCHANGED <<rateApplied, m_dynamicRate, m_resetSampleRate, m_setPitchRatio, m_pitchRatio,
                   m_slew, m_deferredSampleRate, m_sampleRateIn, spc, sArg,
                   pitchReq, pitchWant, rateReq, rateWant, pumpSawDone,
                   pumpAfterReq, pulled, pendingAtStart, oDone, hookReq,
                   nonVoiceVars>>

\* _setPitchRatio called from _resetSampleRate: m_setPitchRatio = false (lines 30, 34)
VResetPitchClear ==
    /\ vpc = "rs_pclear"
    /\ m_setPitchRatio' = FALSE
    /\ vpc' = "rs_clear"
    /\ UNCHANGED <<rateApplied, m_dynamicRate, m_resetSampleRate, m_pitchRatio, m_slew,
                   m_deferredSampleRate, m_sampleRateIn, m_src, spc, sArg,
                   soxrFailed, pitchReq, pitchWant, pitchApplied, rateReq,
                   rateWant, pumpSawDone, pumpAfterReq, pulled, pendingAtStart, oDone, hookReq,
                   nonVoiceVars>>

\* _resetSampleRate, line 108: m_resetSampleRate = false
VResetClear ==
    /\ vpc = "rs_clear"
    /\ m_resetSampleRate' = FALSE
    /\ vpc' = "mid2"
    /\ UNCHANGED <<rateApplied, m_dynamicRate, m_setPitchRatio, m_pitchRatio, m_slew,
                   m_deferredSampleRate, m_sampleRateIn, m_src, spc, sArg,
                   soxrFailed, pitchReq, pitchWant, pitchApplied, rateReq,
                   rateWant, pumpSawDone, pumpAfterReq, pulled, pendingAtStart, oDone, hookReq,
                   nonVoiceVars>>

\* _midUpdate, lines 41-42: if (m_setPitchRatio) _setPitchRatio(m_pitchRatio, m_slew),
\* up to the soxr call
VMidPitch ==
    /\ vpc = "mid2"
    /\ IF m_setPitchRatio
         THEN /\ \E ok \in BOOLEAN :
                   /\ m_src' = SetPitchRatioSrc(m_pitchRatio, m_slew, ok)
                   /\ soxrFailed' = (soxrFailed \/ SetPitchRatioFails(ok))
                   /\ pitchApplied' = IF CountsAsApplied(m_pitchRatio, ok)
                                        THEN Bump(pitchApplied) ELSE pitchApplied
              /\ vpc' = "sp_clear"
              /\ UNCHANGED pumpAfterReq
         ELSE /\ vpc' = "out"
              /\ pumpAfterReq' = (pumpAfterReq \/ pumpSawDone)
              /\ UNCHANGED <<m_src, soxrFailed, pitchApplied>>
    /\ UNCHANGED <<rateApplied, m_dynamicRate, m_resetSampleRate, m_setPitchRatio, m_pitchRatio,
                   m_slew, m_deferredSampleRate, m_sampleRateIn, spc, sArg,
                   pitchReq, pitchWant, rateReq, rateWant, pumpSawDone, pulled,
                   pendingAtStart, oDone, hookReq,
                   nonVoiceVars>>

\* _setPitchRatio called from _midUpdate: m_setPitchRatio = false (lines 30, 34)
VPitchClear ==
    /\ vpc = "sp_clear"
    /\ m_setPitchRatio' = FALSE
    /\ vpc' = "out"
    /\ pumpAfterReq' = (pumpAfterReq \/ pumpSawDone)
    /\ UNCHANGED <<rateApplied, m_dynamicRate, m_resetSampleRate, m_pitchRatio, m_slew,
                   m_deferredSampleRate, m_sampleRateIn, m_src, spc, sArg,
                   soxrFailed, pitchReq, pitchWant, pitchApplied, rateReq,
                   rateWant, pumpSawDone, pulled, pendingAtStart, oDone, hookReq,
                   nonVoiceVars>>

\* size_t oDone = soxr_output(m_src, ...)   (line 213): as many frames as the
\* resampler can deliver, the whole period or none.  On the null m_src a
\* failed soxr_create left behind, soxr_output reads p->max_ilen through the
\* null pointer: the pump faults or goes on with any count.
VOutput ==
    /\ vpc = "out"
    /\ pulled' = pulled + 1
    /\ \E n \in {0, PeriodFrames}, faults \in BOOLEAN :
          /\ faults => ~m_src.valid
          /\ vpc' = IF faults THEN "fault" ELSE "mix"
          /\ oDone' = IF faults THEN 0 ELSE n
    /\ UNCHANGED <<rateApplied, m_dynamicRate, m_resetSampleRate, m_setPitchRatio, m_pitchRatio,
                   m_slew, m_deferredSampleRate, m_sampleRateIn, m_src, spc, sArg,
                   soxrFailed, pitchReq, pitchWant, pitchApplied, rateReq,
                   rateWant, pumpSawDone, pumpAfterReq, pendingAtStart, hookReq,
                   nonVoiceVars>>

\* if (oDone) routing and mixing of the block; return oDone  (lines 215-234)
VMix ==
    /\ vpc = "mix"
    /\ vpc' = "idle"
    /\ oDone' = 0
    /\ pendingAtStart' = FALSE
    /\ hookReq' = NoHookReq
    /\ UNCHANGED <<rateApplied, m_dynamicRate, m_resetSampleRate, m_setPitchRatio, m_pitchRatio,
                   m_slew, m_deferredSampleRate, m_sampleRateIn, m_src, spc, sArg,
                   soxrFailed, pitchReq, pitchWant, pitchApplied, rateReq,
                   rateWant, pumpSawDone, pumpAfterReq, pulled, nonVoiceVars>>

\* The voice after its constructor (lines 77-82): the resampler is built at the
\* given rate, the default pitch ratio 1 is set on it, no latch is pending.
VoiceInitWith(dyn, rate, deferred) ==
    /\ m_dynamicRate = dyn
    /\ m_resetSampleRate = FALSE
    /\ m_setPitchRatio = FALSE
    /\ m_pitchRatio = 1
    /\ m_slew = FALSE
    /\ m_deferredSampleRate = deferred
    /\ m_sampleRateIn = rate
    /\ m_src = SoxrCreate(rate, TRUE)
    /\ vpc = "idle"
    /\ spc = "idle"
    /\ sArg = NoArg
    /\ soxrFailed = FALSE
    /\ pitchReq = "none"
    /\ pitchWant = 1
    /\ pitchApplied = 0
    /\ rateApplied = 0
    /\ rateReq = "none"
    /\ rateWant = rate
    /\ pumpSawDone = FALSE
    /\ pumpAfterReq = FALSE
    /\ pulled = 0
    /\ pendingAtStart = FALSE
    /\ oDone = 0
    /\ hookReq = NoHookReq

VoiceInit ==
    \E dyn \in BOOLEAN, rate \in Rates, deferred \in Rates :
        VoiceInitWith(dyn, rate, deferred)

\* the voice as the other specifications leave it
VoiceQuiet == VoiceInitWith(TRUE, 1, 1)

VoiceNext ==
    \/ SetPitchRatio_Flag \/ SetPitchRatio_Ratio \/ SetPitchRatio_Slew
    \/ ResetSampleRate_Flag \/ ResetSampleRate_Rate
    \/ VPumpStart \/ VPreSetPitchRatio \/ VPreResetSampleRate \/ VPreDone
    \/ VMidReset \/ VResetSetPitch \/ VResetPitchClear \/ VResetClear
    \/ VMidPitch \/ VPitchClear \/ VOutput \/ VMix

(***************************************************************************)
(* Claims about the deferred parameter latches (SpecVoice).                *)
(***************************************************************************)
\* C2 as stated: a parameter change latched by setPitchRatio or resetSampleRate is applied
\* exactly once, at the first pump that starts after the request: once such a
\* pump is past its _midUpdate the requested ratio has been applied once, and
\* it is never applied a second time.  (Stated for a dynamic-rate voice whose
\* soxr calls all succeed.)
C2_AppliedExactlyOnce ==
    (m_dynamicRate /\ ~soxrFailed) =>
        /\ pitchReq = "done" => /\ pitchApplied <= 1
                                /\ pumpAfterReq => pitchApplied = 1
        /\ rateReq = "done" => /\ rateApplied <= 1
                               /\ pumpAfterReq => rateApplied = 1

\* C3 as stated: no completed request is lost or applied with a stale value:
\* when no setter and no pump is running and no latch is pending, the
\* resampler runs at the rate and at the pitch ratio of the latest completed
\* requests.  (Stated for a dynamic-rate voice whose soxr calls all succeed.)
C3_NoRequestLost ==
    (/\ m_dynamicRate /\ ~soxrFailed
     /\ spc = "idle" /\ vpc = "idle"
     /\ ~m_setPitchRatio /\ ~m_resetSampleRate) =>
        /\ pitchReq = "done" => m_src.ioNum = pitchWant * m_sampleRateIn
        /\ rateReq = "done" => m_src.rate = rateWant

\* C12 as stated: when a sample-rate reset and a pitch-ratio change are both
\* pending at the start of a pump (and no further request arrives during it),
\* then after _midUpdate the resampler has been rebuilt at the requested
\* input rate, the requested pitch ratio is set on the new resampler with
\* the slew length setPitchRatio asked for (m_5msFrames if slew, else 0), and
\* both latches are clear.  (Stated for a dynamic-rate voice whose soxr calls
\* all succeed.)
C12_ResetThenPitchWithSlew ==
    (pendingAtStart /\ m_dynamicRate /\ ~soxrFailed /\ vpc \in {"out", "mix"}) =>
        /\ m_src.valid /\ m_src.rate = rateWant /\ m_sampleRateIn = rateWant
        /\ m_src.ioNum = pitchWant * rateWant
        /\ ~m_resetSampleRate /\ ~m_setPitchRatio
        /\ m_src.slewLen = SlewLen(m_slew)

(***************************************************************************)
(* The lifetime tokens of the graphics data factory                        *)
(* (IGraphicsDataFactory.hpp).  Pointers are small integers, 0 is nullptr; *)
(* the one factory is pointer 1.                                           *)
(***************************************************************************)
MaxTokens == 2
MaxGroups == 2
\* the resources a builder creates in one transaction
TxnRes == 1
MaxPools == 1

TokenSlots == 1..MaxTokens
GroupIds == 1..MaxGroups
PoolIds == 1..MaxPools

\* IGraphicsDataFactory* m_factory = nullptr; IGraphicsData* m_data = nullptr;
NullToken == [live |-> TRUE, m_factory |-> 0, m_data |-> 0]

\* storage that holds no token object
NoToken == [live |-> FALSE, m_factory |-> 0, m_data |-> 0]

\* operator bool() const {return m_factory && m_data;}
TokenBool(t) == t.m_factory # 0 /\ t.m_data # 0

\* doDestroy, line 299: if (m_factory && m_data)
DoDestroyGuard_FactoryOnly(t) == t.m_factory # 0

DoDestroyGuard(t) == t.m_factory # 0 /\ t.m_data # 0

\* doDestroy, lines 302-303: m_factory = nullptr; m_data = nullptr;
DoDestroyClear_Keep(t) == t

DoDestroyClear(t) == [t EXCEPT !.m_factory = 0, !.m_data = 0]

\* the token after doDestroy
AfterDoDestroy(t) == IF DoDestroyGuard(t) THEN DoDestroyClear(t) ELSE t

\* the pointers doDestroy hands to the factory's destroy hook
HookArgs(t) == IF DoDestroyGuard(t) THEN {t.m_data} ELSE {}

\* move construction / assignment: other.m_factory = nullptr; other.m_data = nullptr;
MovedFrom_Keep(t) == t

MovedFrom(t) == [t EXCEPT !.m_factory = 0, !.m_data = 0]

\* move assignment after its doDestroy (lines 319-322), statement by statement
\* on the array of tokens, so that dst = src is what the code makes of it
MoveFields(toks, dst, src) ==
    LET a == [toks EXCEPT ![dst].m_factory = toks[src].m_factory]
        b == [a EXCEPT ![src].m_factory = MovedFrom(a[src]).m_factory]
        c == [b EXCEPT ![dst].m_data = b[src].m_data]
    IN  [c EXCEPT ![src].m_data = MovedFrom(c[src]).m_data]

\* IGraphicsDataFactory::destroyData(IGraphicsData*): the backend releases
\* every resource of the group
DestroyData(gs, args) ==
    [g \in GroupIds |-> IF g \in args THEN [gs[g] EXCEPT !.state = "destroyed"]
                                      ELSE gs[g]]

CountCalls(calls, args) ==
    [x \in DOMAIN calls |-> IF x \in args THEN Bump(calls[x]) ELSE calls[x]]

FreshGroups == {g \in GroupIds : groups[g].state = "none"}

\* where a new token object is constructed: the first free storage
FreeSlots(toks) == {x \in TokenSlots : ~toks[x].live}

IsFirstFree(toks, slot) == slot \in FreeSlots(toks) /\ \A y \in FreeSlots(toks) : slot <= y

NoDrop == [kind |-> "none", preBool |-> FALSE, failed |-> FALSE, calls |-> 0]

NoCommit == [slot |-> 0, ok |-> FALSE, created |-> 0, destroyed |-> 0, group |-> 0]

\* IGraphicsDataFactory::commitTransaction(builder): the builder creates n
\* resources through the context and returns ok; the returned token is
\* constructed in a free slot
CommitTransaction ==
    \E slot \in TokenSlots, ok \in BOOLEAN, n \in {TxnRes}, f \in 0..1 :
       /\ IsFirstFree(dtok, slot)
       /\ FreshGroups # {}
       /\ LET g == CHOOSE x \in FreshGroups : \A y \in FreshGroups : x <= y
          IN  IF ok
                THEN /\ groups' = [groups EXCEPT ![g] = [state |-> "live", res |-> n]]
                     /\ dtok' = [dtok EXCEPT ![slot] =
                                    [live |-> TRUE, m_factory |-> 1, m_data |-> g]]
                     /\ lastCommit' = [slot |-> slot, ok |-> TRUE, created |-> n,
                                       destroyed |-> 0, group |-> g]
                     /\ failedTok' = failedTok \ {slot}
                ELSE /\ groups' = groups
                     /\ dtok' = [dtok EXCEPT ![slot] =
                                    [live |-> TRUE, m_factory |-> f, m_data |-> 0]]
                     /\ lastCommit' = [slot |-> slot, ok |-> FALSE, created |-> n,
                                       destroyed |-> n, group |-> 0]
                     /\ failedTok' = failedTok \cup {slot}
       /\ lastDrop' = NoDrop
       /\ UNCHANGED <<destroyDataCalls, ptok, pools, destroyPoolCalls, pbufs, nonTokVars>>

\* GraphicsDataToken() = default;
DataDefaultCtor ==
    \E slot \in TokenSlots :
       /\ IsFirstFree(dtok, slot)
       /\ dtok' = [dtok EXCEPT ![slot] = NullToken]
       /\ failedTok' = failedTok \ {slot}
       /\ lastCommit' = NoCommit
       /\ lastDrop' = NoDrop
       /\ UNCHANGED <<groups, destroyDataCalls, ptok, pools, destroyPoolCalls,
                      pbufs, nonTokVars>>

\* GraphicsDataToken(GraphicsDataToken&& other)   (lines 308-314)
DataMoveCtor ==
    \E dst \in TokenSlots, src \in TokenSlots :
       /\ IsFirstFree(dtok, dst)
       /\ dtok[src].live
       /\ dtok' = [dtok EXCEPT ![dst] = [dtok[src] EXCEPT !.live = TRUE],
                               ![src] = MovedFrom(dtok[src])]
       /\ failedTok' = IF src \in failedTok THEN (failedTok \ {src}) \cup {dst}
                                            ELSE failedTok \ {dst}
       /\ lastCommit' = NoCommit
       /\ lastDrop' = NoDrop
       /\ UNCHANGED <<groups, destroyDataCalls, ptok, pools, destroyPoolCalls,
                      pbufs, nonTokVars>>

\* GraphicsDataToken& operator=(GraphicsDataToken&& other)   (lines 316-324)
DataMoveAssign ==
    \E dst \in TokenSlots, src \in TokenSlots :
       /\ dtok[dst].live
       /\ dtok[src].live
       /\ LET args == HookArgs(dtok[dst])
              destroyed == [dtok EXCEPT ![dst] = AfterDoDestroy(dtok[dst])]
          IN  /\ groups' = DestroyData(groups, args)
              /\ destroyDataCalls' = CountCalls(destroyDataCalls, args)
              /\ dtok' = MoveFields(destroyed, dst, src)
       /\ failedTok' = IF src \in failedTok /\ src # dst
                         THEN (failedTok \ {src}) \cup {dst}
                         ELSE failedTok \ {dst}
       /\ lastCommit' = NoCommit
       /\ lastDrop' = NoDrop
       /\ UNCHANGED <<ptok, pools, destroyPoolCalls, pbufs, nonTokVars>>

\* void doDestroy()   (lines 297-305)
DataDoDestroy ==
    \E slot \in TokenSlots :
       /\ dtok[slot].live
       /\ LET args == HookArgs(dtok[slot])
          IN  /\ groups' = DestroyData(groups, args)
              /\ destroyDataCalls' = CountCalls(destroyDataCalls, args)
              /\ lastDrop' = [kind |-> "data",
                              preBool |-> TokenBool(dtok[slot]),
                              failed |-> slot \in failedTok,
                              calls |-> Cardinality(args)]
       /\ dtok' = [dtok EXCEPT ![slot] = AfterDoDestroy(dtok[slot])]
       /\ lastCommit' = NoCommit
       /\ UNCHANGED <<ptok, pools, destroyPoolCalls, failedTok,
                      pbufs, nonTokVars>>

\* ~GraphicsDataToken() {doDestroy();}
DataDtor ==
    \E slot \in TokenSlots :
       /\ dtok[slot].live
       /\ LET args == HookArgs(dtok[slot])
          IN  /\ groups' = DestroyData(groups, args)
              /\ destroyDataCalls' = CountCalls(destroyDataCalls, args)
              /\ lastDrop' = [kind |-> "data",
                              preBool |-> TokenBool(dtok[slot]),
                              failed |-> slot \in failedTok,
                              calls |-> Cardinality(args)]
       /\ dtok' = [dtok EXCEPT ![slot] = NoToken]
       /\ failedTok' = failedTok \ {slot}
       /\ lastCommit' = NoCommit
       /\ UNCHANGED <<ptok, pools, destroyPoolCalls, pbufs, nonTokVars>>

\* ---- GraphicsBufferPoolToken (lines 332-388) ----
\* IGraphicsDataFactory* m_factory = nullptr; IGraphicsBufferPool* m_pool = nullptr;
NullPoolToken == [live |-> TRUE, m_factory |-> 0, m_pool |-> 0]

NoPoolToken == [live |-> FALSE, m_factory |-> 0, m_pool |-> 0]

\* operator bool() const {return m_factory && m_pool;}
PoolTokenBool(t) == t.m_factory # 0 /\ t.m_pool # 0

\* doDestroy, line 346: if (m_factory && m_pool)
PoolDoDestroyGuard(t) == t.m_factory # 0 /\ t.m_pool # 0

\* doDestroy, lines 349-350: m_factory = nullptr; m_pool = nullptr;
PoolDoDestroyClear(t) == [t EXCEPT !.m_factory = 0, !.m_pool = 0]

PoolAfterDoDestroy(t) == IF PoolDoDestroyGuard(t) THEN PoolDoDestroyClear(t) ELSE t

PoolHookArgs(t) == IF PoolDoDestroyGuard(t) THEN {t.m_pool} ELSE {}

\* move construction / assignment: other.m_factory = nullptr; other.m_pool = nullptr;
PoolMovedFrom(t) == [t EXCEPT !.m_factory = 0, !.m_pool = 0]

\* move assignment after its doDestroy (lines 366-369), statement by statement
PoolMoveFields(toks, dst, src) ==
    LET a == [toks EXCEPT ![dst].m_factory = toks[src].m_factory]
        b == [a EXCEPT ![src].m_factory = PoolMovedFrom(a[src]).m_factory]
        c == [b EXCEPT ![dst].m_pool = b[src].m_pool]
    IN  [c EXCEPT ![src].m_pool = PoolMovedFrom(c[src]).m_pool]

\* IGraphicsDataFactory::destroyPool(IGraphicsBufferPool*)
DestroyPool(ps, args) ==
    [q \in PoolIds |-> IF q \in args THEN [ps[q] EXCEPT !.state = "destroyed"]
                                     ELSE ps[q]]

\* the dynamic buffers a client allocates from its pools
MaxBufs == 3

BufIds == 1..MaxBufs

\* IGraphicsDataFactory::destroyPool(IGraphicsBufferPool*), the buffers: every
\* buffer the pool still holds is destroyed with it
DestroyPoolBufs(bs, args) ==
    [b \in BufIds |->
        IF bs[b].pool \in args /\ bs[b].state \in {"live", "dropped"}
            THEN [bs[b] EXCEPT !.state = "dropped", !.destroys = Bump(@)]
            ELSE bs[b]]

\* IGraphicsDataFactory::newPoolBuffer(pool, use, stride, count): a new
\* dynamic buffer held by the pool
FactoryNewPoolBuffer(bs, q, b) ==
    [bs EXCEPT ![b] = [pool |-> q, state |-> "live", destroys |-> 0, asked |-> FALSE]]

\* IGraphicsDataFactory::deletePoolBuffer(pool, buf): the pool gives up the
\* buffer and the buffer is destroyed
FactoryDeletePoolBuffer(bs, q, b) ==
    IF bs[b].pool = q /\ bs[b].state = "live"
        THEN [bs EXCEPT ![b].state = "deleted", ![b].destroys = Bump(@)]
        ELSE bs

FreshBufs == {b \in BufIds : pbufs[b].state = "none"}

FreshPools == {q \in PoolIds : pools[q].state = "none"}

\* IGraphicsDataFactory::newBufferPool(): an empty pool and the token owning it
NewBufferPool ==
    \E slot \in TokenSlots :
       /\ IsFirstFree(ptok, slot)
       /\ FreshPools # {}
       /\ LET q == CHOOSE x \in FreshPools : \A y \in FreshPools : x <= y
          IN  /\ pools' = [pools EXCEPT ![q] = [state |-> "live"]]
              /\ ptok' = [ptok EXCEPT ![slot] =
                             [live |-> TRUE, m_factory |-> 1, m_pool |-> q]]
       /\ lastCommit' = NoCommit
       /\ lastDrop' = NoDrop
       /\ UNCHANGED <<dtok, groups, destroyDataCalls, destroyPoolCalls, failedTok, pbufs, nonTokVars>>

\* GraphicsBufferPoolToken(IGraphicsDataFactory* factory, IGraphicsBufferPool*
\* pool)   (lines 341-342), the constructor of the backends, with a null
\* factory or a null pool: it stores what it is given
PoolTokenCtor ==
    \E slot \in TokenSlots, f \in 0..1,
       q \in {0} \cup {x \in PoolIds : pools[x].state = "live"} :
       /\ IsFirstFree(ptok, slot)
       /\ f = 0 \/ q = 0
       /\ ptok' = [ptok EXCEPT ![slot] = [live |-> TRUE, m_factory |-> f, m_pool |-> q]]
       /\ lastCommit' = NoCommit
       /\ lastDrop' = NoDrop
       /\ UNCHANGED <<dtok, groups, destroyDataCalls, pools, destroyPoolCalls,
                      failedTok, pbufs, nonTokVars>>

\* GraphicsBufferPoolToken() = default;
PoolDefaultCtor ==
    \E slot \in TokenSlots :
       /\ IsFirstFree(ptok, slot)
       /\ ptok' = [ptok EXCEPT ![slot] = NullPoolToken]
       /\ lastCommit' = NoCommit
       /\ lastDrop' = NoDrop
       /\ UNCHANGED <<dtok, groups, destroyDataCalls, pools, destroyPoolCalls,
                      failedTok, pbufs, nonTokVars>>

\* GraphicsBufferPoolToken(GraphicsBufferPoolToken&& other)   (lines 355-361)
PoolMoveCtor ==
    \E dst \in TokenSlots, src \in TokenSlots :
       /\ IsFirstFree(ptok, dst)
       /\ ptok[src].live
       /\ ptok' = [ptok EXCEPT ![dst] = [ptok[src] EXCEPT !.live = TRUE],
                               ![src] = PoolMovedFrom(ptok[src])]
       /\ lastCommit' = NoCommit
       /\ lastDrop' = NoDrop
       /\ UNCHANGED <<dtok, groups, destroyDataCalls, pools, destroyPoolCalls,
                      failedTok, pbufs, nonTokVars>>

\* GraphicsBufferPoolToken& operator=(GraphicsBufferPoolToken&& other)   (lines 363-371)
PoolMoveAssign ==
    \E dst \in TokenSlots, src \in TokenSlots :
       /\ ptok[dst].live
       /\ ptok[src].live
       /\ LET args == PoolHookArgs(ptok[dst])
              destroyed == [ptok EXCEPT ![dst] = PoolAfterDoDestroy(ptok[dst])]
          IN  /\ pools' = DestroyPool(pools, args)
              /\ pbufs' = DestroyPoolBufs(pbufs, args)
              /\ destroyPoolCalls' = CountCalls(destroyPoolCalls, args)
              /\ ptok' = PoolMoveFields(destroyed, dst, src)
       /\ lastCommit' = NoCommit
       /\ lastDrop' = NoDrop
       /\ UNCHANGED <<dtok, groups, destroyDataCalls, failedTok, nonTokVars>>

\* void doDestroy()   (lines 344-352)
PoolDoDestroy ==
    \E slot \in TokenSlots :
       /\ ptok[slot].live
       /\ LET args == PoolHookArgs(ptok[slot])
          IN  /\ pools' = DestroyPool(pools, args)
              /\ pbufs' = DestroyPoolBufs(pbufs, args)
              /\ destroyPoolCalls' = CountCalls(destroyPoolCalls, args)
              /\ lastDrop' = [kind |-> "pool",
                              preBool |-> PoolTokenBool(ptok[slot]),
                              failed |-> FALSE,
                              calls |-> Cardinality(args)]
       /\ ptok' = [ptok EXCEPT ![slot] = PoolAfterDoDestroy(ptok[slot])]
       /\ lastCommit' = NoCommit
       /\ UNCHANGED <<dtok, groups, destroyDataCalls, failedTok,
                      nonTokVars>>

\* ~GraphicsBufferPoolToken() {doDestroy();}
PoolDtor ==
    \E slot \in TokenSlots :
       /\ ptok[slot].live
       /\ LET args == PoolHookArgs(ptok[slot])
          IN  /\ pools' = DestroyPool(pools, args)
              /\ pbufs' = DestroyPoolBufs(pbufs, args)
              /\ destroyPoolCalls' = CountCalls(destroyPoolCalls, args)
              /\ lastDrop' = [kind |-> "pool",
                              preBool |-> PoolTokenBool(ptok[slot]),
                              failed |-> FALSE,
                              calls |-> Cardinality(args)]
       /\ ptok' = [ptok EXCEPT ![slot] = NoPoolToken]
       /\ lastCommit' = NoCommit
       /\ UNCHANGED <<dtok, groups, destroyDataCalls, failedTok,
                      nonTokVars>>

\* IGraphicsBufferD* newPoolBuffer(use, stride, count)   (lines 375-381):
\* if (m_factory) the call is forwarded, else it returns nullptr
NewPoolBuffer ==
    \E slot \in TokenSlots :
       /\ ptok[slot].live
       /\ FreshBufs # {}
       /\ LET b == CHOOSE x \in FreshBufs : \A y \in FreshBufs : x <= y
          IN  pbufs' = IF ptok[slot].m_factory # 0
                         THEN FactoryNewPoolBuffer(pbufs, ptok[slot].m_pool, b)
                         ELSE pbufs
       /\ lastCommit' = NoCommit
       /\ lastDrop' = NoDrop
       /\ UNCHANGED <<dtok, groups, destroyDataCalls, ptok, pools, destroyPoolCalls,
                      failedTok, nonTokVars>>

\* A token that never forwards deletePoolBuffer.
DeletePoolBufferGuard_Never(t) == FALSE

\* deletePoolBuffer, line 385: if (m_factory)
DeletePoolBufferGuard(t) == t.m_factory # 0

\* void deletePoolBuffer(IGraphicsBufferD* buf)   (lines 383-387), called with
\* a live buffer; through a token that owns a pool, with a buffer of that pool
DeletePoolBuffer ==
    \E slot \in TokenSlots, b \in BufIds :
       /\ ptok[slot].live
       /\ pbufs[b].state = "live"
       /\ PoolTokenBool(ptok[slot]) => pbufs[b].pool = ptok[slot].m_pool
       /\ LET fwd == IF DeletePoolBufferGuard(ptok[slot])
                        THEN FactoryDeletePoolBuffer(pbufs, ptok[slot].m_pool, b)
                        ELSE pbufs
          IN  pbufs' = [fwd EXCEPT ![b].asked = PoolTokenBool(ptok[slot])]
       /\ lastCommit' = NoCommit
       /\ lastDrop' = NoDrop
       /\ UNCHANGED <<dtok, groups, destroyDataCalls, ptok, pools, destroyPoolCalls,
                      failedTok, nonTokVars>>

\* no token object exists, the factory has created nothing
TokInit ==
    /\ dtok = [s \in TokenSlots |-> NoToken]
    /\ groups = [g \in GroupIds |-> [state |-> "none", res |-> 0]]
    /\ destroyDataCalls = [g \in 0..MaxGroups |-> 0]
    /\ ptok = [s \in TokenSlots |-> NoPoolToken]
    /\ pools = [q \in PoolIds |-> [state |-> "none"]]
    /\ destroyPoolCalls = [q \in 0..MaxPools |-> 0]
    /\ pbufs = [b \in BufIds |->
                  [pool |-> 0, state |-> "none", destroys |-> 0, asked |-> FALSE]]
    /\ lastCommit = NoCommit
    /\ lastDrop = NoDrop
    /\ failedTok = {}

TokNext ==
    \/ CommitTransaction \/ DataDefaultCtor \/ DataMoveCtor \/ DataMoveAssign
    \/ DataDoDestroy \/ DataDtor
    \/ NewBufferPool \/ PoolDefaultCtor \/ PoolMoveCtor \/ PoolMoveAssign
    \/ PoolDoDestroy \/ PoolDtor

\* the pool side alone, with the buffers of the pools
PoolNext ==
    \/ NewBufferPool \/ PoolDefaultCtor \/ PoolMoveCtor \/ PoolMoveAssign
    \/ PoolDoDestroy \/ PoolDtor \/ NewPoolBuffer \/ DeletePoolBuffer

\* the pool side with the tokens a backend constructs from a null factory or
\* a null pool
PoolCtorNext == PoolNext \/ PoolTokenCtor

(***************************************************************************)
(* The IOKit HID listener (CHIDListenerIOKit.cpp) and the finder's token   *)
(* set it mutates.                                                         *)
(***************************************************************************)
MaxHandles == 2
MaxBlocks == 2

Handles == 1..MaxHandles

\* CDeviceFinder::_hasToken(handle)
HasToken(toks, h) == toks[h] > 0

\* CDeviceFinder::_insertToken(token)
InsertToken(toks, h) == [toks EXCEPT ![h] = Bump(toks[h])]

\* CDeviceFinder::_removeToken(handle)
RemoveToken(toks, h) == [toks EXCEPT ![h] = 0]

\* deviceConnected, lines 19-22: the two early returns
ConnectInserts_NoHasCheck(h) == m_scanningEnabled

ConnectInserts(h) == m_scanningEnabled /\ ~HasToken(m_tokens, h)

\* deviceDisconnected, line 47, on the listener's run loop
AfterDisconnect(toks, h) == RemoveToken(toks, h)

\* history: where the sequence connect(H), disconnect(H), connect(H), all
\* delivered while scanning, stands for handle h; 4 is any other history
SeqAfterConnect(h) ==
    IF m_scanningEnabled /\ evSeq[h] \in {0, 2} THEN evSeq[h] + 1 ELSE 4

SeqAfterDisconnect(h) ==
    IF m_scanningEnabled /\ evSeq[h] = 1 THEN 2 ELSE 4

\* the thread of the run loop has not faulted
LoopRuns == hidLast.op # "fault"

\* the listener exists and has not faulted
ListenerRuns == LoopRuns /\ ~hidThr.destroyed

\* the threads that call into the listener: the one that owns
\* m_listenerRunLoop (line 77) and any other
HidThreads == {"loop", "other"}

\* the run-loop thread is free to run a callback or a block: it is not itself
\* inside scanNow
LoopIdle == hidThr.scanner # "loop"

\* a callback on the run-loop thread calls _insertToken or _removeToken
\* (lines 28, 47) and the call changes the set (mutates); it takes no lock,
\* so it runs whether or not another thread holds m_tokensLock in scanNow
LoopMutation(mutates) ==
    [hidThr EXCEPT !.mut = IF mutates THEN "loop" ELSE @,
                   !.overlap = @ \/ (mutates /\ hidThr.scanner = "other")]

\* the OS attaches device h and the manager calls deviceConnected on the
\* listener's run loop (lines 14-32).  Past the early returns the handler
\* reads four properties and tests no result: when a read fails (~ok),
\* IOHIDDeviceGetProperty returns null, CFNumberGetValue and
\* CFStringGetCStringPtr are called on null and vid and pid stay
\* uninitialised; the handler faults there or inserts a token built from
\* what it has.
DeviceConnected ==
    \E h \in Handles, ok \in BOOLEAN, faults \in BOOLEAN :
       /\ ListenerRuns /\ LoopIdle
       /\ ~attached[h]
       /\ faults => (ConnectInserts(h) /\ ~ok)
       /\ hidThr' = LoopMutation(ConnectInserts(h) /\ ~faults)
       /\ attached' = [attached EXCEPT ![h] = TRUE]
       /\ readable' = [readable EXCEPT ![h] = ok]
       /\ m_tokens' = IF ConnectInserts(h) /\ ~faults THEN InsertToken(m_tokens, h)
                                                     ELSE m_tokens
       /\ hidLast' = [op |-> IF faults THEN "fault" ELSE "connected", h |-> h,
                      scanning |-> m_scanningEnabled]
       /\ evSeq' = [evSeq EXCEPT ![h] = SeqAfterConnect(h)]
       /\ UNCHANGED <<m_scanningEnabled, runLoopBlocks, nonHidVars>>

\* the OS detaches device h and deviceDisconnected runs on the listener's
\* run loop (lines 39, 47)
DeviceDisconnected ==
    \E h \in Handles :
       /\ ListenerRuns /\ LoopIdle
       /\ attached[h]
       /\ attached' = [attached EXCEPT ![h] = FALSE]
       /\ readable' = [readable EXCEPT ![h] = TRUE]
       /\ m_tokens' = AfterDisconnect(m_tokens, h)
       /\ hidThr' = LoopMutation(HasToken(m_tokens, h))
       /\ hidLast' = [op |-> "removed", h |-> h, scanning |-> m_scanningEnabled]
       /\ evSeq' = [evSeq EXCEPT ![h] = SeqAfterDisconnect(h)]
       /\ UNCHANGED <<m_scanningEnabled, runLoopBlocks, nonHidVars>>

\* the OS detaches device h and deviceDisconnected runs on another run loop:
\* CFRunLoopPerformBlock, CFRunLoopWakeUp, return (lines 39-46)
DeviceDisconnectedForeign ==
    \E h \in Handles :
       /\ ListenerRuns
       /\ attached[h]
       /\ Len(runLoopBlocks) < MaxBlocks
       /\ attached' = [attached EXCEPT ![h] = FALSE]
       /\ readable' = [readable EXCEPT ![h] = TRUE]
       /\ runLoopBlocks' = Append(runLoopBlocks, h)
       /\ hidLast' = [op |-> "marshalled", h |-> h, scanning |-> m_scanningEnabled]
       /\ evSeq' = [evSeq EXCEPT ![h] = SeqAfterDisconnect(h)]
       /\ UNCHANGED <<m_scanningEnabled, m_tokens, hidThr, nonHidVars>>

\* the listener's run loop performs the oldest queued block (lines 41-43, 47).
\* The block holds the listener by plain pointer and the run loop is the
\* thread's, so the block is performed whether or not the listener still
\* exists; on a destroyed listener it reads m_listenerRunLoop and m_finder
\* from the freed object and removes the token or faults.
RunLoopPerformBlock ==
    /\ LoopRuns /\ LoopIdle
    /\ runLoopBlocks # <<>>
    /\ \E faults \in BOOLEAN :
         LET h == Head(runLoopBlocks)
         IN  /\ faults => hidThr.destroyed
             /\ m_tokens' = IF faults THEN m_tokens ELSE AfterDisconnect(m_tokens, h)
             /\ hidThr' = LoopMutation(HasToken(m_tokens, h) /\ ~faults)
             /\ hidLast' = [op |-> IF faults THEN "fault" ELSE "removed", h |-> h,
                            scanning |-> m_scanningEnabled]
    /\ runLoopBlocks' = Tail(runLoopBlocks)
    /\ UNCHANGED <<m_scanningEnabled, attached, evSeq, readable, nonHidVars>>

\* ~CHIDListenerIOKit()   (lines 88-93): unschedule the manager from the run
\* loop, close and release it.  No callback of the manager arrives after
\* that; the blocks already handed to the run loop (line 41) stay queued.
DestroyListener ==
    /\ ListenerRuns
    /\ hidThr.scanner = "none"
    /\ hidThr' = [hidThr EXCEPT !.destroyed = TRUE]
    /\ hidLast' = [op |-> "destroyed", h |-> 0, scanning |-> m_scanningEnabled]
    /\ UNCHANGED <<m_scanningEnabled, m_tokens, runLoopBlocks, attached, evSeq,
                   readable, nonHidVars>>

\* bool startScanning()   (lines 96-100)
StartScanning ==
    /\ ListenerRuns
    /\ ~m_scanningEnabled
    /\ m_scanningEnabled' = TRUE
    /\ hidLast' = [op |-> "start", h |-> 0, scanning |-> TRUE]
    /\ UNCHANGED <<m_tokens, runLoopBlocks, attached, evSeq, readable, hidThr,
                   nonHidVars>>

\* bool stopScanning()   (lines 101-105)
StopScanning ==
    /\ ListenerRuns
    /\ m_scanningEnabled
    /\ m_scanningEnabled' = FALSE
    /\ hidLast' = [op |-> "stop", h |-> 0, scanning |-> FALSE]
    /\ evSeq' = [h \in Handles |-> IF evSeq[h] = 0 THEN 0 ELSE 4]
    /\ UNCHANGED <<m_tokens, runLoopBlocks, attached, readable, hidThr, nonHidVars>>

\* bool scanNow(), first half (lines 110-111), called by a client on thread
\* t: copy the manager's device set, lock m_tokensLock.  Nothing moves the
\* call to the run loop.
ScanNowLock(t) ==
    /\ ListenerRuns
    /\ hidThr.scanner = "none"
    /\ hidThr' = [hidThr EXCEPT !.scanner = t,
                                !.devs = {h \in Handles : attached[h]}]
    /\ UNCHANGED <<m_scanningEnabled, m_tokens, runLoopBlocks, attached, hidLast,
                   evSeq, readable, nonHidVars>>

\* the devices applyDevice (lines 50-63) goes on to read and insert
ScanInserts(h) == h \in hidThr.devs /\ ~HasToken(m_tokens, h)

\* bool scanNow(), second half (lines 112-115): applyDevice on every device
\* of the copy, in the order of the CFSet, then unlock.  applyDevice tests no
\* result of its property reads either: at a device that cannot be read the
\* scan faults, after any of the other devices, or inserts a token built
\* from what it has.
ScanNow ==
    /\ ListenerRuns
    /\ hidThr.scanner # "none"
    /\ \E faultAt \in {0} \cup {h \in Handles : ScanInserts(h) /\ ~readable[h]} :
       \E done \in SUBSET {h \in Handles : ScanInserts(h) /\ h # faultAt} :
          /\ faultAt = 0 => done = {h \in Handles : ScanInserts(h)}
          /\ m_tokens' = [h \in Handles |->
                             IF h \in done THEN InsertToken(m_tokens, h)[h]
                                           ELSE m_tokens[h]]
          /\ hidLast' = [op |-> IF faultAt = 0 THEN "scanned" ELSE "fault",
                         h |-> faultAt, scanning |-> m_scanningEnabled]
          /\ evSeq' = [h \in Handles |-> IF h \in done THEN 4 ELSE evSeq[h]]
          /\ hidThr' = [hidThr EXCEPT !.scanner = "none", !.devs = {},
                                      !.mut = IF done # {} THEN hidThr.scanner ELSE @]
    /\ UNCHANGED <<m_scanningEnabled, runLoopBlocks, attached, readable, nonHidVars>>

\* the listener after its constructor (lines 66-86): the devices present at
\* the initial run of the loop have tokens, inserted on the thread of the
\* run loop, and scanning is off again
HidInitWith(present) ==
    /\ m_scanningEnabled = FALSE
    /\ attached = [h \in Handles |-> h \in present]
    /\ m_tokens = [h \in Handles |-> IF h \in present THEN 1 ELSE 0]
    /\ runLoopBlocks = <<>>
    /\ hidLast = [op |-> "none", h |-> 0, scanning |-> FALSE]
    /\ evSeq = [h \in Handles |-> IF h \in present THEN 4 ELSE 0]
    /\ readable = [h \in Handles |-> TRUE]
    /\ hidThr = [scanner |-> "none", devs |-> {}, mut |-> "loop", overlap |-> FALSE,
                destroyed |-> FALSE]

HidInit == \E present \in SUBSET Handles : HidInitWith(present)

\* the listener's steps when its clients call scanNow on the threads callers
HidNextOn(callers) ==
    \/ DeviceConnected \/ DeviceDisconnected \/ DeviceDisconnectedForeign
    \/ RunLoopPerformBlock \/ StartScanning \/ StopScanning
    \/ \E t \in callers : ScanNowLock(t)
    \/ ScanNow
    \/ DestroyListener

\* the clients scan on the thread of the listener's run loop
HidNext == HidNextOn({"loop"})

\* the clients scan on any thread
HidThreadsNext == HidNextOn(HidThreads)

(***************************************************************************)
(* The pump of a voice (AudioVoice.cpp): pumpAndMix16 / 32 / Flt of the    *)
(* mono and of the stereo voice, the resampler input callback SRCCallback  *)
(* and the channel-level setters.  One mono and one stereo voice share the *)
(* engine's scratch vectors.  A block of samples is an integer naming its  *)
(* content, 0 for silence; a coefficient array is a positive integer.      *)
(***************************************************************************)
\* frames asked of a pump
MaxFrames == 2
\* frames the resampler asks of its input callback
MaxReq == 2
\* distinct coefficient arrays a client sets
MaxCoef == 1
\* distinct input blocks supplyAudio delivers
MaxInput == 2

Voices == {"mono", "stereo"}

\* IAudioSubmix*: m_root.m_mainSubmix and one further submix
Submixes == {"m_mainSubmix", "aux"}

Formats == {"16", "32", "Flt"}

ScratchPre == [f \in Formats |->
    CASE f = "16" -> "m_scratch16Pre" [] f = "32" -> "m_scratch32Pre"
      [] OTHER -> "m_scratchFltPre"]

ScratchPost == [f \in Formats |->
    CASE f = "16" -> "m_scratch16Post" [] f = "32" -> "m_scratch32Post"
      [] OTHER -> "m_scratchFltPost"]

ScratchNames ==
    {"m_scratchIn"} \cup {ScratchPre[f] : f \in Formats}
        \cup {ScratchPost[f] : f \in Formats}

\* samples per frame: soxr_create(..., 1, ...) / soxr_create(..., 2, ...)
Channels(v) == IF v = "mono" THEN 1 ELSE 2

\* sizeof(int16_t), the type of the resampler's input samples
BytesPerInt16 == 2

\* A resize on every call, whatever the vector holds.
Resize_Always(size, need, to) == to

\* if (vec.size() < need) vec.resize(to);
Resize(size, need, to) == IF size < need THEN to ELSE size

\* A resize that forgets the channel count.
PumpResizeTo_Frames(v, fmt, frames) == frames

\* the size the Pre and Post vectors are resized to: frames or samples for
\* the integer formats, frames + 2 (mono) or samples + 4 (stereo) for float
PumpResizeTo(v, fmt, frames) ==
    frames * Channels(v)
        + (IF fmt = "Flt" THEN (IF v = "mono" THEN 2 ELSE 4) ELSE 0)

Max(a, b) == IF a >= b THEN a ELSE b

\* A callback that asks the client also for a silent voice.
SRCCallback_AlwaysSupply(v, frames, size, got) ==
    [size |-> Resize(size, frames * Channels(v), frames * Channels(v)),
     zeroed |-> 0, supplyCalls |-> 1, ret |-> got]

\* AudioVoiceMono::SRCCallback / AudioVoiceStereo::SRCCallback: the size of
\* m_scratchIn afterwards, the samples memset has zeroed, the calls of
\* supplyAudio (which returns got) and the frame count reported
SRCCallback(v, frames, size, got) ==
    LET samples == frames * Channels(v)
        grown == Resize(size, samples, samples)
    IN  IF m_silentOut[v]
          THEN [size |-> grown,
                zeroed |-> (IF v = "mono" THEN frames * 2 ELSE samples * 2)
                               \div BytesPerInt16,
                supplyCalls |-> 0, ret |-> frames]
          ELSE [size |-> grown, zeroed |-> 0, supplyCalls |-> 1, ret |-> got]

NoMtx == [coefs |-> 0, slewFrames |-> 0]

\* DefaultMonoMtx / DefaultStereoMtx: default-constructed and never given
\* coefficients; -1 names the coefficients of the default constructor
DefaultMtx == [v \in Voices |-> [coefs |-> -1, slewFrames |-> 0]]

\* the keys of m_sendMatrices
SendKeys(v) == {s \in Submixes : m_sendMatrices[v][s] # NoMtx}

\* A pump that always mixes into the main submix as well.
MixTargets_AlwaysMain(v) == SendKeys(v) \cup {"m_mainSubmix"}

\* if (m_sendMatrices.size()) every key of the map, else m_root.m_mainSubmix
MixTargets(v) == IF SendKeys(v) # {} THEN SendKeys(v) ELSE {"m_mainSubmix"}

\* A fallback that borrows the matrix another voice sends to the main submix.
FallbackMtx_Borrowed(v) ==
    LET o == CHOOSE w \in Voices : w # v
    IN  IF m_sendMatrices[o]["m_mainSubmix"] # NoMtx
          THEN m_sendMatrices[o]["m_mainSubmix"] ELSE DefaultMtx[v]

\* the matrix of the else branch: DefaultMonoMtx or DefaultStereoMtx
FallbackMtx(v) == DefaultMtx[v]

\* the matrix that mixes the block into submix s
MixMatrix(v, s) == IF SendKeys(v) # {} THEN m_sendMatrices[v][s] ELSE FallbackMtx(v)

\* AudioMatrixMono::mixMonoSampleData / AudioMatrixStereo::mixStereoSampleData:
\* what n frames of a block add to a merge buffer through a matrix
MixSampleData(mtx, block, n) == <<mtx, block, n>>

NoPump == [voice |-> "none", req |-> 0, got |-> 0, zeroed |-> 0, supplyCalls |-> 0,
           ret |-> 0, oDone |-> 0, key |-> <<>>, out |-> <<>>, calls |-> <<>>]

\* m_cb->routeAudio(n, channels, dt, smx.m_busId, pre, post)
RouteAudioCall(s, n) == [call |-> "routeAudio", smx |-> s, frames |-> n]

\* mtx.mixMonoSampleData / mixStereoSampleData(info, post, smx._getMergeBuf(n), n)
MixCall(s, n) == [call |-> "mix", smx |-> s, frames |-> n]

\* A pump that routes the block once and mixes the result into every target.
RECURSIVE RouteAndMix_RouteOnce(_, _)
RouteAndMix_RouteOnce(targets, n) ==
    IF targets = {} THEN <<>>
    ELSE LET s == CHOOSE x \in targets : TRUE
             rest == RouteAndMix_RouteOnce(targets \ {s}, n)
         IN  IF rest = <<>> THEN <<RouteAudioCall(s, n), MixCall(s, n)>>
                            ELSE rest \o <<MixCall(s, n)>>

\* the body of if (oDone), lines 141-159: for every target in turn one call
\* of routeAudio with the target's bus id and one of the mix into the
\* target's merge buffer, both with oDone frames
RECURSIVE RouteAndMix(_, _)
RouteAndMix(targets, n) ==
    IF targets = {} THEN <<>>
    ELSE LET s == CHOOSE x \in targets : TRUE
         IN  <<RouteAudioCall(s, n), MixCall(s, n)>> \o RouteAndMix(targets \ {s}, n)

NoRef == [key |-> <<>>, out |-> <<>>]

\* the destination a submix argument denotes: null is the main submix
Denotes(submix) == IF submix = "nullptr" THEN "m_mainSubmix" ELSE submix

NoSend == [op |-> "none", voice |-> "none", submix |-> "nullptr", coefs |-> 0,
           slew |-> FALSE]

\* pumpAndMix16 / pumpAndMix32 / pumpAndMixFlt(frames) of voice v.  soxr_output
\* calls the input callback for req frames, or (req = 0) serves the request
\* from what it holds; supplyAudio delivers got frames of block inp.  The
\* deferred updates of _midUpdate are the actions of the latches above.
\* key is what the pump is given (the voice, its state and its inputs) and
\* out what it adds to each merge buffer; a pump is kept for comparison
\* (rec) only while the other voice has no sends.
PumpAndMix(v, fmt, frames, req, got, inp, rec) ==
    LET samples == frames * Channels(v)
        to == PumpResizeTo(v, fmt, frames)
        src == IF req > 0 THEN SRCCallback(v, req, m_scratch["m_scratchIn"], got)
                          ELSE [size |-> m_scratch["m_scratchIn"], zeroed |-> 0,
                                supplyCalls |-> 0, ret |-> 0]
        done == IF req > 0 /\ src.ret = 0 THEN 0 ELSE frames
        block == IF src.supplyCalls > 0 THEN inp ELSE 0
        targets == IF done # 0 THEN MixTargets(v) ELSE {}
        out == [s \in targets |-> MixSampleData(MixMatrix(v, s), block, done)]
        key == <<v, frames, req, got, inp, m_silentOut[v], m_sendMatrices[v]>>
    IN  /\ rec => \A w \in Voices \ {v} : SendKeys(w) = {}
        /\ m_scratch' = [m_scratch EXCEPT
                ![ScratchPre[fmt]] = Resize(@, samples, to),
                ![ScratchPost[fmt]] = Resize(@, samples, to),
                !["m_scratchIn"] = src.size]
        /\ maxDemand' = [maxDemand EXCEPT
                ![ScratchPre[fmt]] = Max(@, samples),
                ![ScratchPost[fmt]] = Max(@, samples),
                !["m_scratchIn"] = Max(@, req * Channels(v))]
        /\ lastPump' = [voice |-> v, req |-> req, got |-> got,
                        zeroed |-> src.zeroed, supplyCalls |-> src.supplyCalls,
                        ret |-> src.ret, oDone |-> done,
                        key |-> IF rec \/ ref # NoRef THEN key ELSE <<>>,
                        out |-> out,
                        calls |-> RouteAndMix(targets, done)]
        /\ ref' = IF rec /\ ref = NoRef THEN [key |-> key, out |-> out] ELSE ref
        /\ sendLog' = [sendLog EXCEPT !.last = NoSend]
        /\ UNCHANGED <<m_silentOut, m_sendMatrices, liveSubmixes, nonMixVars>>

\* A setter that files a null submix under the other submix.
SendTarget_NullIsAux(submix) == IF submix = "nullptr" THEN "aux" ELSE submix

\* if (!submix) submix = &m_root.m_mainSubmix;   (lines 245-246, 265-266,
\* 465-466, 475-476)
SendTarget(submix) == IF submix = "nullptr" THEN "m_mainSubmix" ELSE submix

\* setMonoChannelLevels / setStereoChannelLevels(submix, coefs, slew) of either
\* voice: the client passes a submix it holds or null, which stands for the
\* main submix; the entry is created when missing and given the coefficients
\* and the slew length
SetChannelLevels(v, submix, coefs, slew) ==
    LET target == SendTarget(submix)
    IN  /\ target \in liveSubmixes
        /\ m_sendMatrices' = [m_sendMatrices EXCEPT ![v][target] =
                                 [coefs |-> coefs, slewFrames |-> SlewLen(slew)]]
        /\ lastPump' = NoPump
        /\ sendLog' = [last |-> [op |-> "set", voice |-> v, submix |-> submix,
                                 coefs |-> coefs, slew |-> slew],
                       named |-> [sendLog.named EXCEPT ![v] = @ \cup {Denotes(submix)}]]
        /\ UNCHANGED <<m_scratch, m_silentOut, maxDemand, ref, liveSubmixes, nonMixVars>>

\* resetChannelLevels(): m_sendMatrices.clear()
ResetChannelLevels(v) ==
    /\ m_sendMatrices' = [m_sendMatrices EXCEPT ![v] = [s \in Submixes |-> NoMtx]]
    /\ lastPump' = NoPump
    /\ sendLog' = [last |-> [NoSend EXCEPT !.op = "reset", !.voice = v],
                   named |-> [sendLog.named EXCEPT ![v] = {}]]
    /\ UNCHANGED <<m_scratch, m_silentOut, maxDemand, ref, liveSubmixes, nonMixVars>>

\* two voices without sends on an engine that has not pumped yet
MixInitWith(silent) ==
    /\ m_scratch = [n \in ScratchNames |-> 0]
    /\ m_silentOut = silent
    /\ m_sendMatrices = [v \in Voices |-> [s \in Submixes |-> NoMtx]]
    /\ maxDemand = [n \in ScratchNames |-> 0]
    /\ lastPump = NoPump
    /\ ref = NoRef
    /\ liveSubmixes = Submixes
    /\ sendLog = [last |-> NoSend, named |-> [v \in Voices |-> {}]]

\* The client destroys a submix it created.  A submix holds a bus id, merge
\* buffers and its matrix to the main submix and knows nothing of the voices
\* that send to it; the main submix is a member of the engine.
DestroySubmix(s) ==
    /\ s \in liveSubmixes \ {"m_mainSubmix"}
    /\ liveSubmixes' = liveSubmixes \ {s}
    /\ lastPump' = NoPump
    /\ sendLog' = [sendLog EXCEPT !.last = NoSend]
    /\ UNCHANGED <<m_scratch, m_silentOut, m_sendMatrices, maxDemand, ref, nonMixVars>>

MixQuiet == MixInitWith([v \in Voices |-> FALSE])

\* pumps of every format, of the shortest and the longest period; the
\* resampler asks for no input, one frame or the most frames and the client
\* delivers them all
ScratchNext ==
    \E v \in Voices, fmt \in Formats, frames \in {1, MaxFrames}, req \in {0, 1, MaxReq} :
        PumpAndMix(v, fmt, frames, req, req, 1, FALSE)

\* float pumps of one period (the format of the AudioQueue engine) with any
\* answer of the client, and slewed changes of the sends
RouteNext ==
    \/ \E v \in Voices, req \in 0..MaxReq :
          \E got \in 0..req : PumpAndMix(v, "Flt", MaxFrames, req, got, 1, FALSE)
    \/ \E v \in Voices, s \in Submixes \cup {"nullptr"}, c \in 1..MaxCoef :
          SetChannelLevels(v, s, c, TRUE)
    \/ \E v \in Voices : ResetChannelLevels(v)

\* float pumps of one period, changes of the sends and the destruction of
\* submixes
SubmixNext ==
    \/ \E v \in Voices : PumpAndMix(v, "Flt", MaxFrames, MaxReq, MaxReq, 1, FALSE)
    \/ \E v \in Voices, s \in Submixes \cup {"nullptr"}, c \in 1..MaxCoef,
          slew \in BOOLEAN : SetChannelLevels(v, s, c, slew)
    \/ \E v \in Voices : ResetChannelLevels(v)
    \/ \E s \in Submixes : DestroySubmix(s)

\* float pumps of one period fed whole input blocks, some of them kept for
\* comparison, and changes of the sends
DetNext ==
    \/ \E v \in Voices, inp \in 1..MaxInput, rec \in BOOLEAN :
          PumpAndMix(v, "Flt", MaxFrames, MaxReq, MaxReq, inp, rec)
    \/ \E v \in Voices, s \in Submixes, c \in 1..MaxCoef :
          SetChannelLevels(v, s, c, FALSE)
    \/ \E v \in Voices : ResetChannelLevels(v)

(***************************************************************************)
(* NewAudioVoiceEngine and the constructor of AQSAudioVoiceEngine          *)
(* (AQS.cpp 582-730, 781-787).  Every AudioQueue call may fail.            *)
(***************************************************************************)
\* hardware channel counts _getAvailableSet can report
ChCounts == {2, 4, 6}

\* native sample rates the sample-rate query can report
SampleRates == {44100, 48000}

\* the layout tags the constructor tells apart (lines 639-696); "other" is
\* every tag of the default branch
LayoutTags == {"UseChannelDescriptions", "UseChannelBitmap", "Stereo",
               "StereoHeadphones", "Quadraphonic", "Pentagonal", "other"}

\* the channel bits the bitmap branch tests (lines 650-665)
BitmapChannels == 8

\* m_channelMap.m_channelCount after lines 627-706, for a queue of chCount
\* channels whose layout has the tag tag and n channel descriptions or n of
\* the tested bits set: the count the layout gives, then
\* while (m_channelCount < chCount) append Unknown
ChannelMapCount(chCount, tag, n) ==
    LET decoded == IF chCount > 2
                     THEN CASE tag \in {"UseChannelDescriptions", "UseChannelBitmap"} -> n
                            [] tag \in {"Stereo", "StereoHeadphones"} -> 2
                            [] tag = "Quadraphonic" -> 4
                            [] tag = "Pentagonal" -> 5
                            [] OTHER -> 2
                     ELSE 2
    IN  IF decoded < chCount THEN chCount ELSE decoded

CtorStart(ch) ==
    [pc |-> "new1", chCount |-> ch, m_channelCount |-> 0,
     m_queue |-> "nullptr", m_periodFrames |-> 0,
     allocated |-> 0, i |-> 0, enqueued |-> 0, started |-> FALSE,
     failed |-> "none", ret |-> "pending"]

\* Log.report(logvisor::Fatal, ...) followed by return: logvisor either
\* returns to the constructor, which returns, or ends the program.
FatalReturn(c, what, ends) ==
    [c EXCEPT !.failed = what, !.pc = IF ends THEN "terminated" ELSE "constructed"]

\* AudioQueueNewOutput(..., &m_queue), first call (line 598)
CtorNewOutput(ok, ends) ==
    /\ ctor.pc = "new1"
    /\ ctor' = IF ok THEN [ctor EXCEPT !.m_queue = "live", !.pc = "rate"]
                     ELSE FatalReturn(ctor, "AudioQueueNewOutput", ends)
    /\ UNCHANGED <<aqsVars, voiceVars, tokVars, hidVars, mixVars, midi>>

\* AudioQueueGetProperty(kAudioQueueDeviceProperty_SampleRate), then
\* AudioQueueDispose(m_queue, true) whatever the result; m_queue keeps the
\* disposed queue's address (lines 605-613)
CtorSampleRate(ok, rate, ends) ==
    /\ ctor.pc = "rate"
    /\ LET d == [ctor EXCEPT !.m_queue = "disposed"]
       IN  ctor' = IF ok THEN [d EXCEPT !.m_periodFrames = ((rate * 5) \div 1000) * 3,
                                        !.pc = "new2"]
                        ELSE FatalReturn(d, "SampleRate", ends)
    /\ UNCHANGED <<aqsVars, voiceVars, tokVars, hidVars, mixVars, midi>>

\* AudioQueueNewOutput(..., &m_queue), second call (lines 615-621); a failed
\* call leaves m_queue as it was or stores a null queue
CtorNewOutput2(ok, nulled, ends) ==
    /\ ctor.pc = "new2"
    /\ ctor' = IF ok THEN [ctor EXCEPT !.m_queue = "live", !.pc = "layout"]
                     ELSE FatalReturn([ctor EXCEPT !.m_queue = IF nulled THEN "nullptr" ELSE @],
                                      "AudioQueueNewOutput", ends)
    /\ UNCHANGED <<aqsVars, voiceVars, tokVars, hidVars, mixVars, midi>>

\* if (chCount > 2) AudioQueueGetProperty(kAudioQueueProperty_ChannelLayout)
\* (lines 628-637), then the channel map is filled from the layout the
\* queue reports (lines 639-706)
CtorChannelLayout(ok, ends, tag, n) ==
    /\ ctor.pc = "layout"
    /\ ctor.chCount <= 2 => ok
    /\ ctor' = IF ok THEN [ctor EXCEPT !.pc = "alloc",
                                       !.m_channelCount =
                                           ChannelMapCount(ctor.chCount, tag, n)]
                     ELSE FatalReturn(ctor, "ChannelLayout", ends)
    /\ UNCHANGED <<aqsVars, voiceVars, tokVars, hidVars, mixVars, midi>>

\* one round of the loop over AudioQueueAllocateBuffer (lines 708-715)
CtorAllocateBuffer(ok, ends) ==
    /\ ctor.pc = "alloc"
    /\ ctor' = IF ok
                THEN [ctor EXCEPT !.allocated = @ + 1,
                                  !.pc = IF ctor.allocated + 1 = NumBuffers
                                         THEN "enqueue" ELSE "alloc"]
                ELSE FatalReturn([ctor EXCEPT !.m_queue = "nullptr"],
                                 "AudioQueueAllocateBuffer", ends)
    /\ UNCHANGED <<aqsVars, voiceVars, tokVars, hidVars, mixVars, midi>>

\* one round of the loop over AudioQueueEnqueueBuffer, result not tested
\* (lines 719-724)
CtorEnqueueBuffer(ok) ==
    /\ ctor.pc = "enqueue"
    /\ ctor' = [ctor EXCEPT !.enqueued = IF ok THEN @ + 1 ELSE @,
                            !.i = @ + 1,
                            !.pc = IF ctor.i + 1 = NumBuffers THEN "start" ELSE "enqueue"]
    /\ UNCHANGED <<aqsVars, voiceVars, tokVars, hidVars, mixVars, midi>>

\* AudioQueuePrime, AudioQueueStart, results not tested (lines 725-726)
CtorStartQueue(ok) ==
    /\ ctor.pc = "start"
    /\ ctor' = [ctor EXCEPT !.started = ok, !.pc = "constructed"]
    /\ UNCHANGED <<aqsVars, voiceVars, tokVars, hidVars, mixVars, midi>>

\* NewAudioVoiceEngine: if (!m_queue) return {}; return ret;  (lines 781-787)
NewAudioVoiceEngine ==
    /\ ctor.pc = "constructed"
    /\ ctor' = [ctor EXCEPT !.ret = IF ctor.m_queue = "nullptr" THEN "null" ELSE "engine",
                            !.pc = "returned"]
    /\ UNCHANGED <<aqsVars, voiceVars, tokVars, hidVars, mixVars, midi>>

CtorQuiet == ctor = CtorStart(2)

CtorNext ==
    \/ \E ok \in BOOLEAN, ends \in BOOLEAN : CtorNewOutput(ok, ends)
    \/ \E ok \in BOOLEAN, rate \in SampleRates, ends \in BOOLEAN : CtorSampleRate(ok, rate, ends)
    \/ \E ok \in BOOLEAN, nulled \in BOOLEAN, ends \in BOOLEAN : CtorNewOutput2(ok, nulled, ends)
    \/ \E ok \in BOOLEAN, ends \in BOOLEAN, tag \in LayoutTags, n \in 0..BitmapChannels :
          CtorChannelLayout(ok, ends, tag, n)
    \/ \E ok \in BOOLEAN, ends \in BOOLEAN : CtorAllocateBuffer(ok, ends)
    \/ \E ok \in BOOLEAN : CtorEnqueueBuffer(ok)
    \/ \E ok \in BOOLEAN : CtorStartQueue(ok)
    \/ NewAudioVoiceEngine

(***************************************************************************)
(* The MIDI endpoints of the engine (AQS.cpp 251-580).  An endpoint holds   *)
(* up to four CoreMIDI references; "own" is an object the constructor      *)
(* created for it, "dev" is an endpoint of a device, "0" is no reference.   *)
(***************************************************************************)
MaxEndpoints == 2

MaxMidiNames == 2

MaxSendLen == 513

\* Byte storage[512]   (lines 336, 396)
StorageBytes == 512

\* the bytes of a MIDIPacketList before the data of its first packet:
\* numPackets (4), timeStamp (8), length (2)
PacketListHeadBytes == 14

EndpointSlots == 1..MaxEndpoints

EndpointKinds == {"in", "out", "inout"}

NoEndpoint ==
    [kind |-> "none", virt |-> FALSE, m_midiIn |-> "0", m_midiPortIn |-> "0",
     m_midiOut |-> "0", m_midiPortOut |-> "0"]

\* the in half after its create call: MIDIDestinationCreate fills m_midi(In)
\* (lines 428-430, 470-472), MIDIInputPortCreate fills m_midiPort(In)
\* (lines 500-502, 555-557)
WithInHalf(ep, virt) ==
    IF virt THEN [ep EXCEPT !.m_midiIn = "own"] ELSE [ep EXCEPT !.m_midiPortIn = "own"]

\* the out half after its create call: MIDISourceCreate fills m_midi(Out)
\* (lines 449, 481), MIDIOutputPortCreate fills m_midiPort(Out) and the
\* device's destination becomes m_midi(Out) (lines 526-529, 568-571)
WithOutHalf(ep, virt) ==
    IF virt THEN [ep EXCEPT !.m_midiOut = "own"]
            ELSE [ep EXCEPT !.m_midiPortOut = "own", !.m_midiOut = "dev"]

\* the objects ~MIDIIn, ~MIDIOut, ~MIDIInOut dispose that the constructor
\* created (lines 272-278, 306-312, 362-372)
Owned(ep) ==
    Cardinality({f \in {"m_midiIn", "m_midiPortIn", "m_midiOut", "m_midiPortOut"} :
                    ep[f] = "own"})

\* MIDIEndpointRef m_midi(In), m_midi(Out); MIDIPortRef m_midiPort(In),
\* m_midiPort(Out)
EndpointRefs == {"m_midiIn", "m_midiPortIn", "m_midiOut", "m_midiPortOut"}

\* the members ~MIDIIn, ~MIDIOut, ~MIDIInOut hand to MIDIEndpointDispose and
\* MIDIPortDispose: every one that is not 0 (lines 274-277, 308-311, 364-371)
Disposes(ep) == {f \in EndpointRefs : ep[f] # "0"}

\* the outcome of one of the six constructors when the second half of an
\* in+out endpoint fails and the first half is not released
NewMIDI_KeepsFirstHalf(kind, virt, client, src, dst, stat1, stat2) ==
    LET wantsIn == kind \in {"in", "inout"}
        wantsOut == kind \in {"out", "inout"}
        fresh == [NoEndpoint EXCEPT !.kind = kind, !.virt = virt]
        first == IF wantsIn THEN WithInHalf(fresh, virt) ELSE WithOutHalf(fresh, virt)
        none == [ret |-> NoEndpoint, made |-> 0, freed |-> 0, ins |-> 0, outs |-> 0]
    IN  IF ~client THEN none
        ELSE IF ~virt /\ wantsIn /\ ~src THEN none
        ELSE IF ~virt /\ wantsOut /\ ~dst THEN none
        ELSE IF stat1
          THEN [none EXCEPT !.ins = IF wantsIn THEN 1 ELSE 0,
                            !.outs = IF wantsIn THEN 0 ELSE 1]
        ELSE IF kind # "inout"
          THEN [ret |-> first, made |-> 1, freed |-> 0,
                ins |-> IF wantsIn THEN 1 ELSE 0, outs |-> IF wantsIn THEN 0 ELSE 1]
        ELSE IF stat2
          THEN [ret |-> NoEndpoint, made |-> 1, freed |-> 0, ins |-> 1, outs |-> 1]
        ELSE [ret |-> WithOutHalf(first, virt), made |-> 2, freed |-> 0,
              ins |-> 1, outs |-> 1]

\* newVirtualMIDIIn / Out / InOut (lines 415-484) and newRealMIDIIn / Out /
\* InOut (lines 486-578), by kind and virt: client is m_midiClient != 0, src
\* and dst say whether LookupMIDISource / LookupMIDIDest find the named
\* device, stat1 and stat2 whether the first and second create call return
\* an error.  ret is the endpoint returned (NoEndpoint for a null handle),
\* made and freed count the OS objects created and disposed, ins and outs
\* what is added to m_midiInCounter and m_midiOutCounter.  ret.reset() runs
\* the endpoint's destructor, which disposes what the endpoint holds.
NewMIDI(kind, virt, client, src, dst, stat1, stat2) ==
    LET wantsIn == kind \in {"in", "inout"}
        wantsOut == kind \in {"out", "inout"}
        fresh == [NoEndpoint EXCEPT !.kind = kind, !.virt = virt]
        first == IF wantsIn THEN WithInHalf(fresh, virt) ELSE WithOutHalf(fresh, virt)
        none == [ret |-> NoEndpoint, made |-> 0, freed |-> 0, ins |-> 0, outs |-> 0]
    IN  IF ~client THEN none
        ELSE IF ~virt /\ wantsIn /\ ~src THEN none
        ELSE IF ~virt /\ wantsOut /\ ~dst THEN none
        ELSE IF stat1
          THEN [none EXCEPT !.freed = Owned(fresh),
                            !.ins = IF wantsIn THEN 1 ELSE 0,
                            !.outs = IF wantsIn THEN 0 ELSE 1]
        ELSE IF kind # "inout"
          THEN [ret |-> first, made |-> 1, freed |-> 0,
                ins |-> IF wantsIn THEN 1 ELSE 0, outs |-> IF wantsIn THEN 0 ELSE 1]
        ELSE IF stat2
          THEN [ret |-> NoEndpoint, made |-> 1, freed |-> Owned(first),
                ins |-> 1, outs |-> 1]
        ELSE [ret |-> WithOutHalf(first, virt), made |-> 2, freed |-> 0,
              ins |-> 1, outs |-> 1]

\* MIDIPacketListAdd(&list.head, sizeof(list), curPacket, time, len, buf)
\* (lines 339-340, 399-400) returns the packet when the list of listSize
\* bytes has room for nData more bytes after its head, null otherwise
PacketListAdd(listSize, nData) == PacketListHeadBytes + nData <= listSize

\* size_t send(const void* buf, size_t len) const   (lines 331-349, 391-409)
Send(len) ==
    IF PacketListAdd(StorageBytes, len) THEN [ret |-> len, sent |-> TRUE]
                                        ELSE [ret |-> 0, sent |-> FALSE]

MidiLast(op) ==
    [op |-> op, kind |-> "none", virt |-> FALSE, failed |-> FALSE, slot |-> 0,
     made |-> 0, freed |-> 0, len |-> 0, ret |-> 0, sent |-> FALSE,
     disposed |-> {}]

\* a client calls one of the six constructors; a handle that is not null is
\* kept in the first free slot
NewMIDIEndpoint(kind, virt, src, dst, stat1, stat2) ==
    LET r == NewMIDI(kind, virt, midi.m_midiClient, src, dst, stat1, stat2)
        free == {e \in EndpointSlots : midi.eps[e] = NoEndpoint}
        slot == IF r.ret = NoEndpoint THEN 0
                ELSE CHOOSE e \in free : \A f \in free : e <= f
    IN  /\ free # {}
        /\ midi.m_midiInCounter + r.ins <= MaxMidiNames
        /\ midi.m_midiOutCounter + r.outs <= MaxMidiNames
        /\ midi' = [midi EXCEPT
              !.m_midiInCounter = @ + r.ins,
              !.m_midiOutCounter = @ + r.outs,
              !.eps = IF slot = 0 THEN @ ELSE [@ EXCEPT ![slot] = r.ret],
              !.os = @ + r.made - r.freed,
              !.last = [MidiLast("new") EXCEPT
                          !.kind = kind, !.virt = virt, !.slot = slot,
                          !.made = r.made, !.freed = r.freed,
                          !.failed = \/ ~midi.m_midiClient
                                     \/ ~virt /\ kind \in {"in", "inout"} /\ ~src
                                     \/ ~virt /\ kind \in {"out", "inout"} /\ ~dst
                                     \/ stat1
                                     \/ kind = "inout" /\ stat2]]
        /\ UNCHANGED nonMidiVars

\* the client drops the endpoint in slot e: its destructor disposes what the
\* endpoint holds (lines 272-278, 306-312, 362-372); os counts the objects
\* the endpoint's constructor created
DropEndpoint(e) ==
    /\ midi.eps[e] # NoEndpoint
    /\ midi.recv = 0
    /\ midi' = [midi EXCEPT !.eps[e] = NoEndpoint,
                            !.os = @ - Owned(midi.eps[e]),
                            !.last = [MidiLast("drop") EXCEPT
                                        !.slot = e,
                                        !.disposed = Disposes(midi.eps[e])]]
    /\ UNCHANGED nonMidiVars

\* the client sends len bytes on the out endpoint in slot e
MidiSend(e, len) ==
    /\ midi.eps[e].kind \in {"out", "inout"}
    /\ midi' = [midi EXCEPT !.last = [MidiLast("send") EXCEPT
                                        !.slot = e, !.len = len,
                                        !.ret = Send(len).ret,
                                        !.sent = Send(len).sent]]
    /\ UNCHANGED nonMidiVars

\* bool useMIDILock() const {return true;}   (line 580)
useMIDILock == TRUE

\* CoreMIDI calls MIDIReceiveProc on a thread of its own with a packet for
\* the in endpoint in slot e, and the proc calls m_receiver (lines 251-262).
\* The proc is static, has the receiver as its only context and takes no
\* lock, whatever m_engineMutex is held for.
MIDIReceiveProc(e) ==
    /\ midi.eps[e].kind \in {"in", "inout"}
    /\ midi.recv = 0
    /\ midi' = [midi EXCEPT !.recv = e, !.last = [MidiLast("receive") EXCEPT !.slot = e]]
    /\ UNCHANGED nonMidiVars

\* the receiver returns
ReceiverReturn ==
    /\ midi.recv # 0
    /\ midi' = [midi EXCEPT !.recv = 0, !.last = MidiLast("received")]
    /\ UNCHANGED nonMidiVars

\* the engine after its constructor; MIDIClientCreate (line 729) may fail and
\* leave m_midiClient 0
MidiInitWith(client, eps) ==
    midi = [m_midiClient |-> client, m_midiInCounter |-> 0, m_midiOutCounter |-> 0,
            eps |-> eps, os |-> 0, recv |-> 0, last |-> MidiLast("none")]

MidiQuiet == MidiInitWith(TRUE, [e \in EndpointSlots |-> NoEndpoint])

\* the clients create and drop endpoints
MidiNext ==
    \/ \E kind \in EndpointKinds, virt \in BOOLEAN, src \in BOOLEAN, dst \in BOOLEAN,
          stat1 \in BOOLEAN, stat2 \in BOOLEAN :
          NewMIDIEndpoint(kind, virt, src, dst, stat1, stat2)
    \/ \E e \in EndpointSlots : DropEndpoint(e)

\* sends of every length on two out endpoints
MidiSendNext == \E e \in EndpointSlots, len \in 0..MaxSendLen : MidiSend(e, len)

\* the rendezvous of the callback and the client while MIDI packets arrive
MidiReceiveNext ==
    \/ AQSNext
    \/ \E e \in EndpointSlots : MIDIReceiveProc(e)
    \/ ReceiverReturn

(***************************************************************************)
(* The specifications: one per subsystem, the others at rest.              *)
(***************************************************************************)
AQSQuiet == AQSInit

TokQuiet == TokInit

HidQuiet == HidInitWith({})

InitAQS == AQSInit /\ VoiceQuiet /\ TokQuiet /\ HidQuiet /\ MixQuiet /\ CtorQuiet /\ MidiQuiet

InitVoice == VoiceInit /\ AQSQuiet /\ TokQuiet /\ HidQuiet /\ MixQuiet /\ CtorQuiet /\ MidiQuiet

InitToken == TokInit /\ AQSQuiet /\ VoiceQuiet /\ HidQuiet /\ MixQuiet /\ CtorQuiet /\ MidiQuiet

InitHID == HidInit /\ AQSQuiet /\ VoiceQuiet /\ TokQuiet /\ MixQuiet /\ CtorQuiet /\ MidiQuiet

SpecAQS == InitAQS /\ [][AQSNext]_vars

\* The callback thread and the destructor keep running, and the timer of
\* wait_for expires; the AudioQueue need not invoke the callback and the
\* client need not call anything.
AQSFairness ==
    /\ WF_vars(CbCheckRunning) /\ WF_vars(CbLock) /\ WF_vars(CbSetInCb)
    /\ WF_vars(CbTestRetrace) /\ WF_vars(CbTimeout) /\ WF_vars(CbRelock)
    /\ WF_vars(CbZeroFill) /\ WF_vars(CbPump) /\ WF_vars(CbNotifyLeave)
    /\ WF_vars(CbReturn) /\ WF_vars(DtorWake) /\ WF_vars(DtorDispose)

SpecAQSFair == InitAQS /\ [][AQSNext]_vars /\ AQSFairness

\* The client thread keeps running too once it is inside pumpAndMixVoices or
\* _pumpAndMixVoicesRetrace, and a thread that was woken from a condition
\* variable gets the mutex at one of the times it is free.
ClientFairness ==
    /\ WF_vars(ClPumpBody) /\ SF_vars(ClPumpReturn)
    /\ WF_vars(ClRetraceLoop) /\ SF_vars(ClRetraceRelock)

SpecAQSClientFair == InitAQS /\ [][AQSNext]_vars /\ AQSFairness /\ ClientFairness

SpecVoice == InitVoice /\ [][VoiceNext]_vars

\* the latches of a dynamic-rate voice constructed at rate 1
InitVoiceHook == VoiceQuiet /\ AQSQuiet /\ TokQuiet /\ HidQuiet /\ MixQuiet /\ CtorQuiet /\ MidiQuiet

SpecVoiceHook == InitVoiceHook /\ [][VoiceNext]_vars

SpecToken == InitToken /\ [][TokNext]_vars

SpecHID == InitHID /\ [][HidNext]_vars

SpecHIDThreads == InitHID /\ [][HidThreadsNext]_vars

InitPool == AQSQuiet /\ VoiceQuiet /\ TokInit /\ HidQuiet /\ MixQuiet /\ CtorQuiet /\ MidiQuiet

SpecPool == InitPool /\ [][PoolNext]_vars

SpecPoolCtor == InitPool /\ [][PoolCtorNext]_vars

InitScratch == MixQuiet /\ AQSQuiet /\ VoiceQuiet /\ TokQuiet /\ HidQuiet /\ CtorQuiet /\ MidiQuiet

SpecScratch == InitScratch /\ [][ScratchNext]_vars

InitRoute ==
    /\ \E silent \in [Voices -> BOOLEAN] : MixInitWith(silent)
    /\ AQSQuiet /\ VoiceQuiet /\ TokQuiet /\ HidQuiet /\ CtorQuiet /\ MidiQuiet

SpecRoute == InitRoute /\ [][RouteNext]_vars

SpecDet == InitScratch /\ [][DetNext]_vars

SpecSubmix == InitScratch /\ [][SubmixNext]_vars

InitCtor ==
    /\ \E ch \in ChCounts : ctor = CtorStart(ch)
    /\ AQSQuiet /\ VoiceQuiet /\ TokQuiet /\ HidQuiet /\ MixQuiet /\ MidiQuiet

SpecCtor == InitCtor /\ [][CtorNext]_vars

InitMIDI ==
    /\ \E client \in BOOLEAN : MidiInitWith(client, [e \in EndpointSlots |-> NoEndpoint])
    /\ AQSQuiet /\ VoiceQuiet /\ TokQuiet /\ HidQuiet /\ MixQuiet /\ CtorQuiet

SpecMIDI == InitMIDI /\ [][MidiNext]_vars

\* a virtual out endpoint and a real in+out endpoint exist
InitMIDISend ==
    /\ midi = [m_midiClient |-> TRUE, m_midiInCounter |-> 1, m_midiOutCounter |-> 2,
               eps |-> [e \in EndpointSlots |->
                          IF e = 1 THEN NewMIDI("out", TRUE, TRUE, TRUE, TRUE, FALSE, FALSE).ret
                          ELSE IF e = 2
                            THEN NewMIDI("inout", FALSE, TRUE, TRUE, TRUE, FALSE, FALSE).ret
                          ELSE NoEndpoint],
               os |-> 3, recv |-> 0, last |-> MidiLast("none")]
    /\ AQSQuiet /\ VoiceQuiet /\ TokQuiet /\ HidQuiet /\ MixQuiet /\ CtorQuiet

SpecMIDISend == InitMIDISend /\ [][MidiSendNext]_vars

SpecMIDIReceive == InitMIDISend /\ [][MidiReceiveNext]_vars

(***************************************************************************)
(* Claims about the lifetime tokens (SpecToken).                           *)
(***************************************************************************)
\* the live tokens that own group g
Owners(g) == {x \in TokenSlots : dtok[x].live /\ dtok[x].m_factory # 0 /\ dtok[x].m_data = g}

PoolOwners(q) == {x \in TokenSlots : ptok[x].live /\ ptok[x].m_factory # 0 /\ ptok[x].m_pool = q}

\* resource r of group g has been created and not released
ResourceValid(g, r) == groups[g].state = "live" /\ r \in 1..groups[g].res

\* C4: token lifetime (P3).  For every committed transaction and every
\* resource in it, the resource is valid if and only if a live token owns the
\* transaction's group (the token has not been destructed or doDestroy'd),
\* and no group has two owners, whatever moves have been made.
C4_TokenLifetime ==
    \A g \in GroupIds :
        groups[g].state # "none" =>
            /\ Cardinality(Owners(g)) <= 1
            /\ \A r \in 1..groups[g].res : ResourceValid(g, r) <=> Owners(g) # {}

C4_Witness ==
    /\ groups[1].state = "destroyed" /\ destroyDataCalls[1] = 1
    /\ groups[2].state = "live" /\ Owners(2) = {1}
    /\ dtok[2].live /\ ~TokenBool(dtok[2])

\* C5: exactly-once destruction.  The destroy hook is called at most once per
\* group and per pool, never with a null pointer, exactly once for every
\* group and pool once no token is left, and a drop of an empty token (one
\* dropped before, or moved from) calls it zero times.
C5_ExactlyOnceDestruction ==
    /\ \A g \in GroupIds : destroyDataCalls[g] <= 1
    /\ \A q \in PoolIds : destroyPoolCalls[q] <= 1
    /\ destroyDataCalls[0] = 0 /\ destroyPoolCalls[0] = 0
    /\ (lastDrop.kind # "none" /\ ~lastDrop.preBool) => lastDrop.calls = 0
    /\ (lastDrop.kind # "none" /\ lastDrop.preBool) => lastDrop.calls = 1
    /\ (\A x \in TokenSlots : ~dtok[x].live) =>
           \A g \in GroupIds : groups[g].state # "none" => destroyDataCalls[g] = 1
    /\ (\A x \in TokenSlots : ~ptok[x].live) =>
           \A q \in PoolIds : pools[q].state # "none" => destroyPoolCalls[q] = 1

C5_Witness ==
    /\ \A x \in TokenSlots : ~dtok[x].live /\ ~ptok[x].live
    /\ lastDrop.kind = "pool" /\ ~lastDrop.preBool /\ lastDrop.calls = 0
    /\ destroyDataCalls[1] = 1 /\ destroyDataCalls[2] = 1
    /\ destroyPoolCalls[1] = 1

\* C6: commitTransaction is atomic.  When it has just returned after a
\* successful builder, the returned token is valid and is the one owner of a
\* live group holding every resource the builder created; after a failed
\* builder every created resource has been destroyed, no group holds them and
\* the returned token is false; and dropping the token of a failed commit
\* calls no destroy hook.
C6_CommitAtomic ==
    /\ lastCommit.slot # 0 =>
          LET t == dtok[lastCommit.slot]
          IN  IF lastCommit.ok
                THEN /\ TokenBool(t)
                     /\ t.m_data = lastCommit.group
                     /\ Owners(lastCommit.group) = {lastCommit.slot}
                     /\ \A r \in 1..lastCommit.created :
                            ResourceValid(lastCommit.group, r)
                     /\ groups[lastCommit.group].res = lastCommit.created
                     /\ lastCommit.destroyed = 0
                ELSE /\ ~TokenBool(t)
                     /\ lastCommit.destroyed = lastCommit.created
                     /\ \A g \in GroupIds : Owners(g) # {lastCommit.slot}
    /\ (lastDrop.kind = "data" /\ lastDrop.failed) =>
          (~lastDrop.preBool /\ lastDrop.calls = 0)

C6_Witness ==
    /\ lastDrop.kind = "data" /\ lastDrop.failed /\ lastDrop.calls = 0
    /\ groups[1].state = "live" /\ Owners(1) # {}

C8_HotPlugRace ==
    \A h \in Handles :
        (evSeq[h] = 3 /\ h \notin RangeOf(runLoopBlocks)) => m_tokens[h] = 1

\* C22: a device whose property read fails is skipped silently.  No step of
\* the listener adds a token for a handle whose attached device cannot be
\* read, neither the connect callback nor scanNow, and the listener goes on
\* (it does not fault).
C22_UnreadableDeviceSkipped ==
    [][/\ \A h \in Handles :
            (attached'[h] /\ ~readable'[h]) => m_tokens'[h] <= m_tokens[h]
       /\ hidLast'.op # "fault"]_vars

\* C32: a device-connect callback inserts a token if and only if scanning is
\* enabled and the token set has no token with that handle; in every other
\* case it leaves the token set unchanged, and the set never holds two
\* tokens for one handle.
C32_ConnectInsertsIff ==
    /\ [][\A h \in Handles :
            (~attached[h] /\ attached'[h]) =>
                m_tokens' = IF m_scanningEnabled /\ ~HasToken(m_tokens, h)
                              THEN InsertToken(m_tokens, h) ELSE m_tokens]_vars
    /\ [](\A h \in Handles : m_tokens[h] <= 1)

\* C33: scanNow is a synchronous one-shot: the call that took the token lock
\* ends by returning with the lock released, and by then it has inserted a
\* token for every device of the manager's set whose handle was absent,
\* whatever the scanning flag, and has removed or replaced no token.
C33_ScanNowOneShot ==
    [][(hidThr.scanner # "none" /\ hidThr'.scanner = "none") =>
          /\ hidLast'.op = "scanned"
          /\ m_tokens' = [h \in Handles |->
                             IF h \in hidThr.devs /\ ~HasToken(m_tokens, h)
                               THEN 1 ELSE m_tokens[h]]]_vars

\* C34: a disconnect removal that was marshalled onto the listener's run loop
\* never executes after the listener has been destroyed: no queued block is
\* performed against a listener whose destructor has completed.
C34_NoBlockAfterDestroy ==
    [][(runLoopBlocks # <<>> /\ runLoopBlocks' = Tail(runLoopBlocks)) =>
          ~hidThr.destroyed]_vars

\* what the move assignment of token src into token dst has to make of the
\* tokens toks and of the destroy-hook call counts: dst's owned object is
\* destroyed once, dst owns what src owned and src is empty; src = dst
\* changes nothing
MoveAssignAsClaimed(toks, toksAfter, calls, callsAfter, ptr, dst, src) ==
    IF dst = src
      THEN toksAfter = toks /\ callsAfter = calls
      ELSE /\ toksAfter[dst] = toks[src]
           /\ toksAfter[src].m_factory = 0 /\ toksAfter[src][ptr] = 0
           /\ \A x \in TokenSlots \ {dst, src} : toksAfter[x] = toks[x]
           /\ callsAfter = CountCalls(calls,
                                IF toks[dst].m_factory # 0 /\ toks[dst][ptr] # 0
                                  THEN {toks[dst][ptr]} ELSE {})

\* a step of operator=(GraphicsDataToken&&): no token is constructed or
\* dropped, nothing is committed, the pool tokens are not touched
DataMoveAssignStep ==
    /\ lastDrop' = NoDrop /\ lastCommit' = NoCommit
    /\ ptok' = ptok
    /\ \E x \in TokenSlots : dtok[x].live
    /\ \A x \in TokenSlots : dtok'[x].live = dtok[x].live

\* a step of operator=(GraphicsBufferPoolToken&&)
PoolMoveAssignStep ==
    /\ lastDrop' = NoDrop /\ lastCommit' = NoCommit
    /\ dtok' = dtok
    /\ \E x \in TokenSlots : ptok[x].live
    /\ \A x \in TokenSlots : ptok'[x].live = ptok[x].live

\* C35: move-assigning token B into token A destroys A's previously owned
\* group (or pool) exactly once, leaves A owning what B owned and leaves B
\* empty; move-assigning a token to itself leaves its ownership unchanged and
\* destroys nothing.
C35_MoveAssign ==
    [][/\ DataMoveAssignStep =>
             \E dst, src \in {x \in TokenSlots : dtok[x].live} :
                MoveAssignAsClaimed(dtok, dtok', destroyDataCalls,
                                    destroyDataCalls', "m_data", dst, src)
       /\ PoolMoveAssignStep =>
             \E dst, src \in {x \in TokenSlots : ptok[x].live} :
                MoveAssignAsClaimed(ptok, ptok', destroyPoolCalls,
                                    destroyPoolCalls', "m_pool", dst, src)]_vars

\* C36: on pool tokens for which operator bool is false (default-constructed,
\* moved-from, destroyed, or constructed with a null pool or a null factory)
\* newPoolBuffer and deletePoolBuffer reach no factory method: while no live
\* token is true, a call through a token creates no buffer and deletes none.
C36_FalseTokenInert ==
    [][((\A x \in TokenSlots : ptok[x].live => ~PoolTokenBool(ptok[x]))
            /\ ptok' = ptok /\ pools' = pools) =>
          \A b \in BufIds : /\ pbufs'[b].state = pbufs[b].state
                            /\ pbufs'[b].pool = pbufs[b].pool
                            /\ pbufs'[b].destroys = pbufs[b].destroys]_vars

\* the positions of a pump inside _midUpdate
MidUpdatePcs == {"mid", "rs_pitch", "rs_pclear", "rs_clear", "mid2", "sp_clear"}

PumpDestinations ==
    IF SendKeys(lastPump.voice) # {} THEN SendKeys(lastPump.voice)
                                     ELSE {"m_mainSubmix"}

\* C38: in a voice pump for which the resampler produced oDone frames,
\* routeAudio is invoked exactly once per destination (send-map entry, or the
\* main submix when there are no sends) with that destination's bus id and
\* the frame count oDone, immediately followed by exactly one mix of oDone
\* frames into that destination's merge buffer; when oDone is 0 routeAudio
\* is not invoked and no merge buffer is requested or modified.
C38_RouteThenMix ==
    lastPump.voice # "none" =>
        IF lastPump.oDone = 0
          THEN lastPump.calls = <<>> /\ DOMAIN lastPump.out = {}
          ELSE /\ Len(lastPump.calls) = 2 * Cardinality(PumpDestinations)
               /\ DOMAIN lastPump.out = PumpDestinations
               /\ \A s \in PumpDestinations :
                     \E i \in 1..Len(lastPump.calls) - 1 :
                        /\ lastPump.calls[i] = RouteAudioCall(s, lastPump.oDone)
                        /\ lastPump.calls[i + 1] = MixCall(s, lastPump.oDone)

\* C38 witness: a pump of a voice with two sends produced a whole period and
\* made four calls: routeAudio and the mix for one send, then for the other.
C38_Witness ==
    /\ lastPump.voice # "none"
    /\ lastPump.oDone = MaxFrames
    /\ Cardinality(SendKeys(lastPump.voice)) = 2
    /\ Len(lastPump.calls) = 4
    /\ lastPump.calls[1].call = "routeAudio" /\ lastPump.calls[2].call = "mix"
    /\ lastPump.calls[3].call = "routeAudio" /\ lastPump.calls[4].call = "mix"
    /\ lastPump.calls[1].smx # lastPump.calls[3].smx

\* C39: after any sequence of setMonoChannelLevels / setStereoChannelLevels
\* calls on a voice its send map holds exactly one entry per distinct
\* destination named since the last resetChannelLevels, null and the main
\* submix being one destination; each call changes only the entry of its
\* destination and gives it the 5 ms frame count as slew length when slew is
\* true and 0 otherwise.
C39_SendMapEntries ==
    /\ [](\A v \in Voices : SendKeys(v) = sendLog.named[v])
    /\ [](sendLog.last.op = "set" =>
            m_sendMatrices[sendLog.last.voice][Denotes(sendLog.last.submix)] =
                [coefs |-> sendLog.last.coefs,
                 slewFrames |-> IF sendLog.last.slew THEN m_5msFrames ELSE 0])
    /\ [][sendLog'.last.op = "set" =>
            \A v \in Voices, s \in Submixes :
               (v # sendLog'.last.voice \/ s # Denotes(sendLog'.last.submix)) =>
                   m_sendMatrices'[v][s] = m_sendMatrices[v][s]]_vars

\* C39 witness: a voice was sent to the other submix with slew and then,
\* without slew, to null; the map has the two entries, the main one with
\* slew length 0.
C39_Witness ==
    /\ sendLog.last.op = "set" /\ sendLog.last.submix = "nullptr"
    /\ ~sendLog.last.slew
    /\ sendLog.named[sendLog.last.voice] = {"m_mainSubmix", "aux"}
    /\ SendKeys(sendLog.last.voice) = {"m_mainSubmix", "aux"}
    /\ m_sendMatrices[sendLog.last.voice]["m_mainSubmix"].slewFrames = 0
    /\ m_sendMatrices[sendLog.last.voice]["aux"].slewFrames = m_5msFrames

\* C40: dropping a MIDI endpoint disposes only OS objects this endpoint
\* itself created (its virtual endpoint or its port), each once; it never
\* disposes a device's source or destination endpoint that was obtained by
\* lookup, and it leaves every other endpoint's OS objects untouched.
C40_DropDisposesOwn ==
    [][\A e \in EndpointSlots :
          (midi.eps[e] # NoEndpoint /\ midi'.eps[e] = NoEndpoint) =>
             /\ midi'.last.disposed =
                    {f \in EndpointRefs : midi.eps[e][f] = "own"}
             /\ midi'.os = midi.os - Cardinality(midi'.last.disposed)
             /\ \A o \in EndpointSlots \ {e} : midi'.eps[o] = midi.eps[o]]_vars

\* C23: every mutation of the finder's token set (insert by connect, remove
\* by disconnect, insert by scanNow) executes on the listener's run-loop
\* thread, and none executes while another thread is inside the locked part
\* of scanNow: no two mutations of the set run concurrently.
C23_TokenSetSerialized ==
    /\ hidThr.mut = "loop"
    /\ ~hidThr.overlap

(***************************************************************************)
(* Claims about the rendezvous of the callback and the client, continued   *)
(* (SpecAQS, SpecAQSFair).                                                 *)
(***************************************************************************)
\* the client holds the engine mutex inside pumpAndMixVoices or
\* _pumpAndMixVoicesRetrace
ClientInsideLock == clpc \in {"pmv_locked", "rt_locked"}

\* C27: whenever the callback is executing _pumpAndMixVoices, the callback
\* thread holds the engine mutex and m_inCb and m_inRetrace are true; so a
\* callback whose wait ended by the timeout, or ended while m_inRetrace is
\* false, does not pump, and no client operation that takes the engine mutex
\* is inside its locked part during a pump.
C27_PumpUnderRetrace ==
    cbpc = "pump" =>
        /\ m_engineMutex = "cb"
        /\ m_inCb
        /\ m_inRetrace
        /\ cbWait # "timeout"
        /\ ~ClientInsideLock

\* the callback pumps after it was woken from its wait, the client waiting
\* in the retrace rendezvous
C27_Witness ==
    /\ cbpc = "pump"
    /\ cbWait = "no_timeout"
    /\ clpc = "rt_wait"

\* how often buffer b is in the AudioQueue
TimesQueued(b) == Cardinality({i \in DOMAIN queue : queue[i] = b})

\* C30: every invocation of the callback that passes the check of
\* m_cbRunning enqueues its buffer exactly once, with byte size
\* m_frameBytes, zero-filled or pumped (never both, never neither), signals
\* leave exactly once, and returns with m_inCb false and the engine mutex
\* released; m_inCb is true only between the entry of such a callback and
\* its return.
C30_CallbackCompletes ==
    /\ m_inCb => (cbCount.passed /\ cbpc \notin {"idle", "check", "lock", "setincb"})
    /\ cbpc \in {"lock", "setincb", "test", "wait", "relock", "zero", "pump"} =>
          /\ cbCount.passed
          /\ cbCount.enq = 0 /\ cbCount.leave = 0 /\ TimesQueued(cbBuf) = 0
    /\ cbpc \in {"notify", "clear"} =>
          /\ cbCount.enq = 1 /\ TimesQueued(cbBuf) = 1
          /\ bufSize[cbBuf] = m_frameBytes
          /\ cbCount.zero + cbPumps = 1
          /\ cbCount.leave = IF cbpc = "clear" THEN 1 ELSE 0
    /\ (cbpc = "idle" /\ cbCount.passed) =>
          /\ cbCount.enq = 1 /\ cbCount.leave = 1
          /\ cbCount.zero + cbPumps = 1
          /\ ~m_inCb
          /\ m_engineMutex # "cb"

\* a callback whose wait timed out, with the client in the retrace
\* rendezvous, has zero-filled and enqueued its buffer, signalled leave and
\* returned
C30_Witness ==
    /\ cbpc = "idle" /\ cbCount.passed
    /\ cbCount.zero = 1 /\ cbWait = "timeout"
    /\ clpc = "rt_relock"

\* the client is inside pumpAndMixVoices
InPump == clpc \in {"pmv_locked", "pmv_wait", "pmv_relock"}

\* the client is inside _pumpAndMixVoicesRetrace
InRetrace == clpc \in {"rt_locked", "rt_wait", "rt_relock"}

\* C28: pumpAndMixVoices never blocks forever.  With no callback in progress
\* (m_inCb false) it returns without waiting; otherwise it signals enter and
\* waits for leave, and while the callback thread keeps running every call
\* returns, whatever the interleaving with the callback's timeout.
C28_PumpReturns ==
    /\ [][(clpc = "pmv_locked" /\ ~m_inCb /\ clpc' # clpc) =>
            (clpc' = "idle" /\ UNCHANGED <<leaveWaited, enterNotifiers>>)]_vars
    /\ [][(clpc = "pmv_locked" /\ m_inCb /\ clpc' # clpc) =>
            (clpc' = "pmv_wait" /\ "pumpAndMixVoices" \in enterNotifiers')]_vars
    /\ InPump ~> (clpc = "idle")

\* the client waited for a callback whose wait had timed out, and that
\* callback has signalled leave
C28_Witness ==
    /\ clpc = "pmv_relock"
    /\ cbpc = "clear"
    /\ cbWait = "timeout"
    /\ "Callback" \in leaveNotifiers

\* C29: a client inside _pumpAndMixVoicesRetrace returns only once
\* _retraceBreak has set m_inRetrace false (the completion of a callback does
\* not release it), and once _retraceBreak has been called it returns: when
\* a callback was waiting it is woken through enter, zero-fills and signals
\* leave, and when none was in progress _retraceBreak signals leave itself.
C29_RetraceReleasedByBreak ==
    /\ [][(InRetrace /\ clpc' = "idle") => ~m_inRetrace]_vars
    /\ [][(InRetrace /\ m_inRetrace /\ ~m_inRetrace') =>
            IF m_inCb THEN "_retraceBreak" \in enterNotifiers'
                      ELSE "_retraceBreak" \in leaveNotifiers']_vars
    /\ (InRetrace /\ ~m_inRetrace) ~> (clpc = "idle")

\* _retraceBreak found a callback in the rendezvous; the callback has
\* zero-filled and signalled leave, and the client is about to return
C29_Witness ==
    /\ clpc = "rt_relock"
    /\ ~m_inRetrace
    /\ "_retraceBreak" \in enterNotifiers
    /\ cbpc = "clear"
    /\ cbPumps = 0

(***************************************************************************)
(* Claims about the MIDI endpoints (SpecMIDI, SpecMIDISend,                *)
(* SpecMIDIReceive).                                                       *)
(***************************************************************************)
\* C24: MIDI endpoint creation failure is local.  A call of one of the six
\* constructors with the MIDI client absent, the named device not found or
\* a failing create call (the second one of an in+out endpoint included)
\* returns a null handle, every OS object it created has been disposed
\* again, and the other endpoints, the MIDI client and the rest of the
\* engine are as before.  (What the call does change are the counters that
\* number the endpoint names.)
C24_CreationFailureLocal ==
    [][(midi'.last.op = "new" /\ midi'.last.failed) =>
          /\ midi'.last.slot = 0
          /\ midi'.last.freed = midi'.last.made
          /\ midi'.os = midi.os
          /\ midi'.eps = midi.eps
          /\ midi'.m_midiClient = midi.m_midiClient
          /\ midi'.recv = midi.recv
          /\ UNCHANGED nonMidiVars]_vars

\* the second half of an in+out endpoint has failed while another endpoint
\* exists, and the first half was released
C24_Witness ==
    /\ midi.last.op = "new" /\ midi.last.failed
    /\ midi.last.kind = "inout"
    /\ midi.last.made = 1 /\ midi.last.freed = 1
    /\ \E e \in EndpointSlots : midi.eps[e] # NoEndpoint

\* C25: send on a MIDI out endpoint accepts every buffer of up to 512 bytes:
\* for every len in 0..512 the packet is built and sent and send returns
\* len; it returns 0 without sending only when the buffer is longer.
C25_SendUpToCap ==
    midi.last.op = "send" =>
        IF midi.last.len <= StorageBytes
          THEN midi.last.sent /\ midi.last.ret = midi.last.len
          ELSE ~midi.last.sent /\ midi.last.ret = 0

\* C26: useMIDILock() is true, and while a receiver runs for an incoming
\* packet the delivering thread holds the engine mutex, so that no receiver
\* runs while the callback pumps.
C26_ReceiverUnderEngineMutex ==
    (useMIDILock /\ midi.recv # 0) =>
        /\ m_engineMutex = "midi"
        /\ cbpc # "pump"

\* the buffers allocated from pool q that are in one of the states sts
BufsOf(q, sts) == {b \in BufIds : pbufs[b].pool = q /\ pbufs[b].state \in sts}

\* C13 (pool lifecycle): every buffer allocated from a pool is destroyed
\* exactly once: at the deletePoolBuffer call made for it through the pool's
\* token, or else when the pool is dropped, and until then it is alive; a
\* pool is destroyed by exactly one destroyPool call.  With 3 allocations and
\* one delete before the drop, one buffer is destroyed at the delete and two
\* at the drop, by one forwarded deletePoolBuffer and one destroyPool.
C13_PoolLifecycle ==
    /\ \A b \in BufIds :
          /\ pbufs[b].destroys <= 1
          /\ pbufs[b].state = "live" =>
                (pbufs[b].destroys = 0 /\ pools[pbufs[b].pool].state = "live")
          /\ pbufs[b].state \in {"deleted", "dropped"} => pbufs[b].destroys = 1
          /\ pbufs[b].asked => pbufs[b].state = "deleted"
          /\ pbufs[b].state = "dropped" =>
                (pools[pbufs[b].pool].state = "destroyed"
                    /\ destroyPoolCalls[pbufs[b].pool] = 1)
    /\ \A q \in PoolIds :
          (/\ pools[q].state = "destroyed"
           /\ Cardinality(BufsOf(q, {"live", "deleted", "dropped"})) = 3
           /\ Cardinality({b \in BufIds : pbufs[b].pool = q /\ pbufs[b].asked}) = 1) =>
              /\ Cardinality(BufsOf(q, {"deleted"})) = 1
              /\ Cardinality(BufsOf(q, {"dropped"})) = 2
              /\ destroyPoolCalls[q] = 1

\* C13 witness: a pool token has just been dropped after three buffers were
\* allocated from its pool and one of them deleted.
C13_Witness ==
    \E q \in PoolIds :
       /\ lastDrop.kind = "pool" /\ lastDrop.calls = 1
       /\ pools[q].state = "destroyed"
       /\ Cardinality(BufsOf(q, {"live", "deleted", "dropped"})) = 3
       /\ Cardinality(BufsOf(q, {"deleted"})) = 1
       /\ Cardinality(BufsOf(q, {"dropped"})) = 2

(***************************************************************************)
(* Claims about the scratch vectors (SpecScratch).                         *)
(***************************************************************************)
\* the largest period, in samples, any pump so far was asked for
MaxPeriodSamples ==
    Max(maxDemand["m_scratch16Pre"],
        Max(maxDemand["m_scratch32Pre"], maxDemand["m_scratchFltPre"]))

\* C14 as stated: after any sequence of pumps every scratch vector of the
\* engine holds at least max(p1..pk) x channels samples.
C14_AsStated ==
    \A n \in ScratchNames : m_scratch[n] >= MaxPeriodSamples

\* C14 (amended): every scratch vector holds at least the largest demand
\* made of that vector: the Pre and the Post vector of a sample format hold
\* at least period x channels samples of every pump made in that format,
\* and m_scratchIn holds at least frames x channels samples of every request
\* the resampler made of the input callback.
C14_ScratchCoversDemand ==
    \A n \in ScratchNames : m_scratch[n] >= maxDemand[n]

\* C14 witness: a mono pump has followed stereo pumps of the longest period
\* in the 16-bit and in the float format, and the input callback has run.
C14_Witness ==
    /\ lastPump.voice = "mono"
    /\ maxDemand["m_scratch16Pre"] = MaxFrames * 2
    /\ maxDemand["m_scratchFltPost"] = MaxFrames * 2
    /\ maxDemand["m_scratchIn"] > 0
    /\ m_scratch["m_scratch32Pre"] = 0

\* C15 (scratch vectors only grow): no pump and no input callback, of the
\* mono or of the stereo voice, makes a scratch vector smaller.
C15_ScratchOnlyGrows ==
    [][\A n \in ScratchNames : m_scratch'[n] >= m_scratch[n]]_vars

\* C15 witness: a mono pump of one frame whose input callback was asked for
\* one frame has run on vectors an earlier stereo pump had grown.
C15_Witness ==
    /\ lastPump.voice = "mono"
    /\ lastPump.req = 1
    /\ lastPump.oDone = 1
    /\ m_scratch["m_scratchIn"] = MaxReq * 2
    /\ m_scratch["m_scratchFltPre"] = MaxFrames * 2 + 4

C19_SilentCallback ==
    (lastPump # NoPump /\ lastPump.req > 0) =>
        IF m_silentOut[lastPump.voice]
          THEN /\ lastPump.supplyCalls = 0
               /\ lastPump.zeroed = lastPump.req * Channels(lastPump.voice)
               /\ lastPump.ret = lastPump.req
          ELSE /\ lastPump.supplyCalls = 1
               /\ lastPump.ret = lastPump.got

\* C19 witness: the callback of a silent stereo voice was asked for MaxReq
\* frames and zeroed 2 x MaxReq samples without asking the client.
C19_Witness ==
    /\ lastPump.voice = "stereo" /\ m_silentOut["stereo"]
    /\ lastPump.req = MaxReq
    /\ lastPump.zeroed = 2 * MaxReq
    /\ lastPump.supplyCalls = 0
    /\ lastPump.oDone = MaxFrames

\* C20: a voice with no explicit sends (never set, or cleared by
\* resetChannelLevels) mixes its pumped block into the main submix only,
\* through the default matrix; a voice with at least one explicit send mixes
\* into exactly the submixes that are keys of its send map, each through the
\* matrix of that send, and into no other submix.
C20_SendRouting ==
    (lastPump # NoPump /\ lastPump.oDone # 0) =>
        LET v == lastPump.voice
        IN  IF SendKeys(v) = {}
              THEN /\ DOMAIN lastPump.out = {"m_mainSubmix"}
                   /\ lastPump.out["m_mainSubmix"][1] = DefaultMtx[v]
              ELSE /\ DOMAIN lastPump.out = SendKeys(v)
                   /\ \A s \in SendKeys(v) :
                         lastPump.out[s][1] = m_sendMatrices[v][s]

\* C20 witness: a voice whose only send goes to the auxiliary submix was
\* pumped and mixed into that submix and not into the main submix.
C20_Witness ==
    /\ lastPump # NoPump /\ lastPump.oDone # 0
    /\ SendKeys(lastPump.voice) = {"aux"}
    /\ DOMAIN lastPump.out = {"aux"}
    /\ lastPump.out["aux"][1].coefs = MaxCoef

\* C21: every key of every voice's send-matrix map is a live submix, and no
\* pump mixes through a key whose submix has been destroyed (the pump reads
\* the bus id and the merge buffer of every key of the map).
C21_SendKeysLive ==
    /\ \A v \in Voices : SendKeys(v) \subseteq liveSubmixes
    /\ lastPump # NoPump => DOMAIN lastPump.out \subseteq liveSubmixes

(***************************************************************************)
(* Claims about a voice whose resampler could not be created (SpecVoice).  *)
(***************************************************************************)
\* C18: after a resampler creation failure the voice is unusable but
\* harmless: every later pump of it completes without error and produces
\* silence, i.e. while the voice has no resampler no pump faults and no pump
\* gets frames to mix into a submix merge buffer.
C18_FailedVoiceSilent ==
    ~m_src.valid => (vpc # "fault" /\ (vpc = "mix" => oDone = 0))

(***************************************************************************)
(* Claims about engine construction (SpecCtor).                            *)
(***************************************************************************)
\* C17: a successful construction guarantees a running engine.
\* NewAudioVoiceEngine returns a non-null engine only if the output queue was
\* created, its buffers allocated and enqueued and the queue started; if
\* queue creation, the sample-rate query, the channel-layout query or buffer
\* allocation failed, it returns null.
C17_NonNullOnlyIfRunning ==
    /\ ctor.ret = "engine" =>
          /\ ctor.m_queue = "live"
          /\ ctor.allocated = NumBuffers /\ ctor.enqueued = NumBuffers
          /\ ctor.started
    /\ (ctor.failed # "none" /\ ctor.pc = "returned") => ctor.ret = "null"

\* the size the queue buffers are allocated with (line 709)
AllocatedBytes == ctor.m_periodFrames * ctor.chCount * BytesPerSample

\* m_frameBytes as line 717 computes it
CtorFrameBytes == ctor.m_periodFrames * ctor.m_channelCount * BytesPerSample

\* C31: after a successful construction m_frameBytes, the number of bytes
\* the callback zero-fills or declares written in a hardware buffer, does
\* not exceed the size the three queue buffers were allocated with, for
\* every channel layout the constructor decodes; the channel map is as long
\* as the hardware channel count.
C31_FrameBytesFit ==
    ctor.allocated = NumBuffers =>
        /\ CtorFrameBytes <= AllocatedBytes
        /\ ctor.m_channelCount = ctor.chCount

====
